---- MODULE Spec2Model ----
(***************************************************************************)
(* A model of the HTTP/1.1 server of web-server-node: the dynamic buffer   *)
(* (bufPush/bufPop), the header framer and request parser, the body        *)
(* readers, the response writer and the connection loop                    *)
(* (newConn/serveClient) on top of the promise based socket API            *)
(* (soInit/soRead/soWrite).                                                *)
(*                                                                         *)
(* A byte is a one-character string; a Buffer is a sequence of bytes.      *)
(* Offsets are 0-based as in the source: byte i of b is b[i + 1].          *)
(***************************************************************************)
EXTENDS Integers, Sequences, FiniteSets, TLC

VARIABLES
    buf,        \* the DynBuf: [data, length, begin]
    stream,     \* the bytes the client sends on the connection
    pos,        \* how many of them the socket has delivered
    conn,       \* the TCPConn: [reader, ended, err]; reader: a read is pending
    sock,       \* the socket: [destroyed]
    io,         \* the awaited operation: run, read, write, ok, err
    readVal,    \* the chunk the settled soRead resolved with
    pc,         \* where newConn/serveClient/writeHTTPRes stands
    msg,        \* the request being served
    reqBody,    \* its body reader
    res,        \* the response being written
    writer,     \* who called writeHTTPRes: serveClient (serve), newConn (catch)
    reading,    \* who called reqBody.read(): writeHTTPRes (write), the discard loop
    failure,    \* the error newConn caught
    written,    \* history: the bytes socket.write took, in order
    reqLog,     \* history: every request cutMessage returned, in order
    delivered,  \* history: the bytes the request's body reader has returned
    bufThrew,   \* DynBuf driver: a bufPop call raised
    pushed,     \* DynBuf driver: the number of bytes pushed so far
    popped,     \* DynBuf driver: the number of bytes popped so far
    flowing,    \* the socket emits "data" events: resumed and not paused
    rd,         \* socket driver: history of the latest soRead call
    listener,   \* the TCPListener: [connectionHandler, err, listening, listens]
    accepts,    \* history: the outcome of every soAccept call, in order
    arrived,    \* the number of connections that reached the server
    uncaught,   \* an exception left an event handler or newConn uncaught
    accPc,      \* where the accept loop of httpServer stands
    cur,        \* the connection the connection variables describe
    parked      \* the state of the other connections, by number

bufVarsOnly == <<bufThrew, pushed, popped>>

connVarsOnly == <<stream, pos, conn, sock, io, readVal, pc, msg, reqBody, res,
                  writer, reading, failure, written, reqLog, delivered>>

srvVarsOnly == <<listener, accepts, arrived, uncaught, accPc, cur, parked>>

extVarsOnly == <<flowing, rd, listener, accepts, arrived, uncaught, accPc, cur,
                 parked>>

vars == <<buf, stream, pos, conn, sock, io, readVal, pc, msg, reqBody, res,
          writer, reading, failure, written, reqLog, delivered, bufThrew,
          pushed, popped, flowing, rd, listener, accepts, arrived, uncaught, accPc, cur, parked>>

----------------------------------------------------------------------------
(* Node's Buffer primitives.                                               *)

NUL == "\\0"
CR == "\r"
LF == "\n"
SP == " "
CRLF == <<CR, LF>>

Min(a, b) == IF a < b THEN a ELSE b
Max(a, b) == IF a > b THEN a ELSE b

Clamp(i, n) == Min(Max(i, 0), n)

\* Buffer.alloc(n): n zero bytes.
Alloc(n) == [i \in 1..n |-> NUL]

\* b.subarray(start, end): both ends clamped to the buffer.
subarray(b, start, end) ==
    LET s == Clamp(start, Len(b))
        e == Clamp(end, Len(b))
    IN  IF e <= s THEN <<>> ELSE SubSeq(b, s + 1, e)

\* source.copy(target, targetStart, 0): copies as many bytes as fit in the
\* target and silently drops the rest; nothing is copied when targetStart is
\* at or past the end of the target.
copy(source, target, targetStart) ==
    IF targetStart >= Len(target) \/ Len(source) = 0
    THEN target
    ELSE LET nb == Min(Len(source), Len(target) - targetStart)
         IN  [i \in 1..Len(target) |->
                 IF i > targetStart /\ i <= targetStart + nb
                 THEN source[i - targetStart]
                 ELSE target[i]]

\* b.copyWithin(target, start, end) of a typed array: the ends are clamped
\* and the count is limited to what fits after target.
copyWithin(b, target, start, end) ==
    LET n == Len(b)
        to == Clamp(target, n)
        from == Clamp(start, n)
        final == Clamp(end, n)
        count == Min(final - from, n - to)
    IN  IF count <= 0
        THEN b
        ELSE [i \in 1..n |->
                 IF i > to /\ i <= to + count THEN b[from + (i - to)] ELSE b[i]]

\* b.fill(0, offset, end) raises a RangeError (ERR_OUT_OF_RANGE) when end is
\* greater than b.length.
fillThrows(b, offset, end) == offset < 0 \/ end < 0 \/ end > Len(b)

fill(b, offset, end) ==
    IF offset >= end
    THEN b
    ELSE [i \in 1..Len(b) |-> IF i > offset /\ i <= end THEN NUL ELSE b[i]]

\* b.indexOf(pat, from): the first offset >= from at which pat occurs, or -1.
indexOf(b, pat, from) ==
    LET hits == {i \in Max(from, 0)..(Len(b) - Len(pat)) :
                     \A j \in 1..Len(pat) : b[i + j] = pat[j]}
    IN  IF hits = {} THEN -1 ELSE CHOOSE i \in hits : \A k \in hits : i <= k

includes(b, byte) == \E i \in 1..Len(b) : b[i] = byte

----------------------------------------------------------------------------
(* Text, byte by byte.                                                     *)

\* the method names of kHttpMethods, and one that is not among them
sGET == <<"G", "E", "T">>
sPOST == <<"P", "O", "S", "T">>
sPUT == <<"P", "U", "T">>
sDELETE == <<"D", "E", "L", "E", "T", "E">>
sHEAD == <<"H", "E", "A", "D">>
sOPTIONS == <<"O", "P", "T", "I", "O", "N", "S">>
sTRACE == <<"T", "R", "A", "C", "E">>
sCONNECT == <<"C", "O", "N", "N", "E", "C", "T">>
sPATCH == <<"P", "A", "T", "C", "H">>

\* protocol versions
sHTTP10 == <<"H", "T", "T", "P", "/", "1", ".", "0">>
sHTTP11 == <<"H", "T", "T", "P", "/", "1", ".", "1">>
sV10 == <<"1", ".", "0">>
sV11 == <<"1", ".", "1">>

\* the URIs of the two routes
sRoot == <<"/">>
sEcho == <<"/", "e", "c", "h", "o">>

\* header names and values
sContentLength ==
    <<"C", "o", "n", "t", "e", "n", "t", "-", "L", "e", "n", "g", "t",
      "h">>
sTransferEncoding ==
    <<"T", "r", "a", "n", "s", "f", "e", "r", "-", "E", "n", "c", "o",
      "d", "i", "n", "g">>
sChunked == <<"c", "h", "u", "n", "k", "e", "d">>
sServerHeader ==
    <<"S", "e", "r", "v", "e", "r", ":", SP, "N", "a", "z", "a", "r",
      "i", "c", "k">>
sContentLengthPrefix ==
    <<"C", "o", "n", "t", "e", "n", "t", "-", "L", "e", "n", "g", "t",
      "h", ":", SP>>
sGreeting ==
    <<"H", "e", "l", "l", "o", SP, "F", "r", "o", "m", SP, "N", "a",
      "z", "a", "r", "i", "c", "k", LF>>
sStatusPrefix == <<"H", "T", "T", "P", "/", "1", ".", "1", SP>>

\* the messages of the errors the server raises
mHeaderTooLong ==
    <<"H", "e", "a", "d", "e", "r", SP, "t", "o", "o", SP, "l", "o",
      "n", "g">>
mBadHeader == <<"B", "a", "d", SP, "h", "e", "a", "d", "e", "r">>
mBadRequestLine ==
    <<"B", "a", "d", SP, "r", "e", "q", "u", "e", "s", "t", SP, "l",
      "i", "n", "e">>
mMethodNotAllowed ==
    <<"M", "e", "t", "h", "o", "d", SP, "n", "o", "t", SP, "a", "l",
      "l", "o", "w", "e", "d">>
mBadURI == <<"B", "a", "d", SP, "U", "R", "I">>
mVersionNotSupported ==
    <<"H", "T", "T", "P", SP, "v", "e", "r", "s", "i", "o", "n", SP,
      "n", "o", "t", SP, "s", "u", "p", "p", "o", "r", "t", "e", "d">>
mBadContentLength ==
    <<"B", "a", "d", SP, "C", "o", "n", "t", "e", "n", "t", "-", "L",
      "e", "n", "g", "t", "h">>
mBodyNotAllowed ==
    <<"B", "o", "d", "y", SP, "n", "o", "t", SP, "a", "l", "l", "o",
      "w", "e", "d">>
mUnexpectedEOFLoop ==
    <<"U", "n", "e", "x", "p", "e", "c", "t", "e", "d", SP, "E", "O",
      "F", ".">>
mUnexpectedEOF ==
    <<"U", "n", "e", "x", "p", "e", "c", "t", "e", "d", SP, "E", "O",
      "F">>
mNotImplemented ==
    <<"N", "o", "t", SP, "i", "m", "p", "l", "e", "m", "e", "n", "t",
      "e", "d">>
mFunctionNotImplemented ==
    <<"F", "u", "n", "c", "t", "i", "o", "n", SP, "n", "o", "t", SP,
      "i", "m", "p", "l", "e", "m", "e", "n", "t", "e", "d", ".">>
mWriterNotImplemented ==
    <<"n", "o", "t", SP, "i", "m", "p", "l", "e", "m", "e", "n", "t",
      "e", "d">>

\* the reason phrases of kReasons for the codes the server emits
rOK == <<"O", "K">>
rBadRequest == <<"B", "a", "d", SP, "R", "e", "q", "u", "e", "s", "t">>
rMethodNotAllowed ==
    <<"M", "e", "t", "h", "o", "d", SP, "N", "o", "t", SP, "A", "l",
      "l", "o", "w", "e", "d">>
rPayloadTooLarge ==
    <<"P", "a", "y", "l", "o", "a", "d", SP, "T", "o", "o", SP, "L",
      "a", "r", "g", "e">>
rVersionNotSupported ==
    <<"H", "T", "T", "P", SP, "V", "e", "r", "s", "i", "o", "n", SP,
      "N", "o", "t", SP, "S", "u", "p", "p", "o", "r", "t", "e", "d">>
rUnknown == <<"U", "n", "k", "n", "o", "w", "n">>

\* character classes
sUpper ==
    <<"A", "B", "C", "D", "E", "F", "G", "H", "I", "J", "K", "L", "M",
      "N", "O", "P", "Q", "R", "S", "T", "U", "V", "W", "X", "Y", "Z">>
sLower ==
    <<"a", "b", "c", "d", "e", "f", "g", "h", "i", "j", "k", "l", "m",
      "n", "o", "p", "q", "r", "s", "t", "u", "v", "w", "x", "y", "z">>
sDigits == <<"0", "1", "2", "3", "4", "5", "6", "7", "8", "9">>

----------------------------------------------------------------------------
(* The dynamic buffer.                                                     *)

kMinCap == 32

EmptyBuf == [data |-> <<>>, length |-> 0, begin |-> 0]

RECURSIVE growCap(_, _)
growCap(cap, newLen) == IF cap < newLen THEN growCap(cap * 2, newLen) ELSE cap

\* The capacity test of bufPush: is the space after begin too small?
pushMustGrow(b, newLen) == Len(b.data) - b.begin < newLen

\* The capacity bufPush reallocates to.
pushNewCap(b, newLen) == growCap(Max(Len(b.data), kMinCap), newLen)

bufPush(b, data) ==
    LET newLen == b.length + Len(data)
        grown == IF pushMustGrow(b, newLen)
                 THEN copy(b.data, Alloc(pushNewCap(b, newLen)), 0)
                 ELSE b.data
    IN  [data |-> copy(data, grown, b.length + b.begin),
         length |-> newLen,
         begin |-> b.begin]

\* The compaction test of bufPop, on the advanced begin.
popMustCompact(b, begin) == 2 * begin > Len(b.data)

\* bufPop mutates the buffer in place; when fill raises, begin is already
\* advanced, the window is already moved, and length is not yet reduced.
bufPop(b, count) ==
    LET begin == b.begin + count
    IN  IF popMustCompact(b, begin)
        THEN LET moved == copyWithin(b.data, 0, begin, begin + b.length)
             IN  IF fillThrows(moved, b.length, b.length + begin)
                 THEN [threw |-> TRUE,
                       buf |-> [data |-> moved, length |-> b.length,
                                begin |-> begin]]
                 ELSE [threw |-> FALSE,
                       buf |-> [data |-> fill(moved, b.length, b.length + begin),
                                length |-> b.length - count,
                                begin |-> 0]]
        ELSE [threw |-> FALSE,
              buf |-> [data |-> b.data, length |-> b.length - count,
                       begin |-> begin]]

\* The unconsumed window [begin, begin + length).
window(b) == subarray(b.data, b.begin, b.begin + b.length)

----------------------------------------------------------------------------
(* Strings and numbers as JavaScript computes them.                        *)

\* A string is the sequence of its characters. A character below U+0080 is
\* the byte of its code; any other character is named by its code point.
charOf(cp) == "\\u" \o ToString(cp)

TAB == "\t"
VT == "\\v"
FF == "\f"

\* The bytes above 0x7F that the inputs use, by value.
xA0 == "\\xA0"
xA9 == "\\xA9"
xBD == "\\xBD"
xBF == "\\xBF"
xC2 == "\\xC2"
xC3 == "\\xC3"
xE9 == "\\xE9"
xEF == "\\xEF"
xFF == "\\xFF"

byteValue ==
    (xA0 :> 160) @@ (xA9 :> 169) @@ (xBD :> 189) @@ (xBF :> 191) @@ (xC2 :> 194)
    @@ (xC3 :> 195) @@ (xE9 :> 233) @@ (xEF :> 239) @@ (xFF :> 255)

isASCII(c) == c \notin DOMAIN byteValue

\* The UTF-8 decoder of Buffer.toString(): the number of continuation
\* bytes the lead byte v asks for (0: v is no lead byte), and the range of
\* the first of them.
utf8Needed(v) ==
    IF v >= 194 /\ v <= 223 THEN 1
    ELSE IF v >= 224 /\ v <= 239 THEN 2
    ELSE IF v >= 240 /\ v <= 244 THEN 3
    ELSE 0

utf8Low(v) == IF v = 224 THEN 160 ELSE IF v = 240 THEN 144 ELSE 128
utf8High(v) == IF v = 237 THEN 159 ELSE IF v = 244 THEN 143 ELSE 191

\* How many of the n continuation bytes of the sequence that b[1] leads are
\* there, j of them being accepted already.
RECURSIVE utf8Seen(_, _, _)
utf8Seen(b, j, n) ==
    IF j = n \/ Len(b) < j + 2 \/ isASCII(b[j + 2])
    THEN j
    ELSE LET v == byteValue[b[j + 2]]
             lo == IF j = 0 THEN utf8Low(byteValue[b[1]]) ELSE 128
             hi == IF j = 0 THEN utf8High(byteValue[b[1]]) ELSE 191
         IN  IF v >= lo /\ v <= hi THEN utf8Seen(b, j + 1, n) ELSE j

\* The code point of a well-formed sequence of two, three or four bytes.
codePoint(bs) ==
    LET v(i) == byteValue[bs[i]]
    IN  IF Len(bs) = 2 THEN (v(1) - 192) * 64 + (v(2) - 128)
        ELSE IF Len(bs) = 3
        THEN (v(1) - 224) * 4096 + (v(2) - 128) * 64 + (v(3) - 128)
        ELSE (v(1) - 240) * 262144 + (v(2) - 128) * 4096 + (v(3) - 128) * 64
             + (v(4) - 128)

\* U+FFFD, which the decoder puts in the place of every ill-formed sequence.
replacementChar == charOf(65533)

RECURSIVE decodeUtf8(_)
decodeUtf8(b) ==
    IF Len(b) = 0 THEN <<>>
    ELSE IF isASCII(b[1]) THEN <<b[1]>> \o decodeUtf8(Tail(b))
    ELSE LET n == utf8Needed(byteValue[b[1]])
             m == utf8Seen(b, 0, n)
         IN  IF n > 0 /\ m = n
             THEN <<charOf(codePoint(SubSeq(b, 1, n + 1)))>>
                  \o decodeUtf8(SubSeq(b, n + 2, Len(b)))
             ELSE <<replacementChar>> \o decodeUtf8(SubSeq(b, m + 2, Len(b)))

\* b.toString(): the bytes decoded as UTF-8.
toString(b) == IF \A i \in 1..Len(b) : isASCII(b[i]) THEN b ELSE decodeUtf8(b)

\* b.toString("latin1"): every byte is the character of its value.
toStringLatin1(b) ==
    [i \in 1..Len(b) |-> IF isASCII(b[i]) THEN b[i] ELSE charOf(byteValue[b[i]])]

\* The well-formed UTF-8 sequences over the bytes above 0x7F.
utf8Sequences ==
    LET high == DOMAIN byteValue
    IN  {bs \in {<<a, c>> : a \in high, c \in high}
                \cup {<<a, c, d>> : a \in high, c \in high, d \in high} :
            /\ utf8Needed(byteValue[bs[1]]) = Len(bs) - 1
            /\ utf8Seen(bs, 0, Len(bs) - 1) = Len(bs) - 1}

\* The UTF-8 encoding of one character.
encodeChar(c) ==
    IF \E bs \in utf8Sequences : charOf(codePoint(bs)) = c
    THEN CHOOSE bs \in utf8Sequences : charOf(codePoint(bs)) = c
    ELSE <<c>>

RECURSIVE encodeUtf8(_)
encodeUtf8(s) ==
    IF Len(s) = 0 THEN <<>> ELSE encodeChar(s[1]) \o encodeUtf8(Tail(s))

\* Buffer.from(s) for a string s: its UTF-8 encoding.
BufferFrom(s) ==
    IF \A i \in 1..Len(s) : \A bs \in utf8Sequences : charOf(codePoint(bs)) # s[i]
    THEN s
    ELSE encodeUtf8(s)

\* s.split(sep) for a one-byte separator: every piece, empty ones included.
RECURSIVE split(_, _)
split(s, sep) ==
    LET i == indexOf(s, <<sep>>, 0)
    IN  IF i < 0
        THEN <<s>>
        ELSE <<subarray(s, 0, i)>> \o split(subarray(s, i + 1, Len(s)), sep)

toLowerByte(c) ==
    IF \E i \in 1..Len(sUpper) : sUpper[i] = c
    THEN sLower[CHOOSE i \in 1..Len(sUpper) : sUpper[i] = c]
    ELSE c

toLowerCase(s) == [i \in 1..Len(s) |-> toLowerByte(s[i])]

isDigit(c) == \E i \in 1..Len(sDigits) : sDigits[i] = c

digitValue(c) == (CHOOSE i \in 1..Len(sDigits) : sDigits[i] = c) - 1

\* The white space parseInt skips in front of the number: WhiteSpace and
\* LineTerminator of ECMAScript below U+0100, and U+FEFF.
isWhiteSpace(c) == c \in {TAB, LF, VT, FF, CR, SP, charOf(160), charOf(65279)}

\* A number of JavaScript: NaN, or an integer.
NaN == [nan |-> TRUE, val |-> 0]
Num(n) == [nan |-> FALSE, val |-> n]

RECURSIVE skipWhiteSpace(_)
skipWhiteSpace(s) ==
    IF Len(s) > 0 /\ isWhiteSpace(s[1]) THEN skipWhiteSpace(Tail(s)) ELSE s

\* The value of the longest prefix of digits of s after acc, and whether
\* there was a digit at all.
RECURSIVE digitsPrefix(_, _, _)
digitsPrefix(s, acc, any) ==
    IF Len(s) > 0 /\ isDigit(s[1])
    THEN digitsPrefix(Tail(s), acc * 10 + digitValue(s[1]), TRUE)
    ELSE [any |-> any, val |-> acc]

\* parseInt(s, 10): leading white space, a sign, then the longest prefix of
\* digits; whatever follows the digits is ignored; NaN without a digit.
parseInt(s) ==
    LET t == skipWhiteSpace(s)
        neg == Len(t) > 0 /\ t[1] = "-"
        u == IF Len(t) > 0 /\ t[1] \in {"-", "+"} THEN Tail(t) ELSE t
        d == digitsPrefix(u, 0, FALSE)
    IN  IF d.any THEN Num(IF neg THEN 0 - d.val ELSE d.val) ELSE NaN

\* parseInt(arg0, 10) || NaN: the number 0 is falsy, so it becomes NaN too.
parseDec(arg0) ==
    LET n == parseInt(arg0)
    IN  IF n.nan \/ n.val = 0 THEN NaN ELSE n

\* `${n}` for a non-negative integer n.
RECURSIVE toDec(_)
toDec(n) ==
    IF n < 10 THEN <<sDigits[n + 1]>> ELSE toDec(n \div 10) \o <<sDigits[(n % 10) + 1]>>

----------------------------------------------------------------------------
(* Errors.                                                                 *)

NoError == [type |-> "none", code |-> 0, message |-> <<>>]
HTTPError(code, message) == [type |-> "HTTPError", code |-> code, message |-> message]
Error(message) == [type |-> "Error", code |-> 0, message |-> message]
\* The RangeError of Buffer.fill.
RangeError == [type |-> "RangeError", code |-> 0, message |-> <<>>]
\* The error of the socket's "error" event.
SocketError == [type |-> "SocketError", code |-> 0, message |-> <<>>]

----------------------------------------------------------------------------
(* The request parser.                                                     *)

kMaxHeaderLen == 8192

kHttpMethods == {sGET, sPOST, sPUT, sDELETE, sHEAD, sOPTIONS, sTRACE, sCONNECT}

NoReq == [method |-> <<>>, uri |-> <<>>, version |-> <<>>, headers |-> <<>>]

RECURSIVE splitlinesFrom(_, _)
splitlinesFrom(data, begin) ==
    IF begin >= Len(data)
    THEN <<>>
    ELSE LET idx == indexOf(data, CRLF, begin)
         IN  IF idx < 0
             THEN <<subarray(data, begin, Len(data))>>
             ELSE (IF idx # 0 THEN <<subarray(data, begin, idx)>> ELSE <<>>)
                  \o splitlinesFrom(data, idx + 2)

splitlines(data) == splitlinesFrom(data, 0)

validateURI(uri, method) ==
    IF Len(uri) = 0 \/ includes(uri, SP) THEN FALSE
    ELSE IF method = sCONNECT /\ ~includes(uri, ":") THEN FALSE
    ELSE IF method = sOPTIONS /\ Len(uri) # 1 THEN FALSE
    ELSE TRUE

\* parseRequestLine after its split, on the three elements: method is the
\* first, uri the bytes of the second, parts the third split at "/".
checkRequestLine(method, uri, parts) ==
    IF method \notin kHttpMethods
    THEN [err |-> HTTPError(405, mMethodNotAllowed), req |-> NoReq]
    ELSE IF ~validateURI(uri, method)
    THEN [err |-> HTTPError(400, mBadURI), req |-> NoReq]
    ELSE IF Len(parts) < 2 \/ parts[2] \notin {sV10, sV11}
    THEN [err |-> HTTPError(505, mVersionNotSupported), req |-> NoReq]
    ELSE [err |-> NoError,
          req |-> [method |-> method, uri |-> uri,
                   version |-> parts[2], headers |-> <<>>]]

\* parseRequestLine on the elements of the line.
splitRequestLine(elements) ==
    IF Len(elements) # 3
    THEN [err |-> HTTPError(400, mBadRequestLine), req |-> NoReq]
    ELSE checkRequestLine(elements[1], BufferFrom(elements[2]),
                          split(elements[3], "/"))

parseRequestLine(arg0) == splitRequestLine(split(toString(arg0), SP))

\* h.toString().split(":", 2): at most the first two pieces.
validateHeader(h) ==
    IF Len(h) = 0 \/ ~includes(h, ":")
    THEN FALSE
    ELSE LET all == split(toString(h), ":")
             elements == SubSeq(all, 1, Min(2, Len(all)))
         IN  ~(\/ Len(elements) # 2
               \/ Len(elements[1]) = 0
               \/ Len(elements[2]) = 0
               \/ elements[1][Len(elements[1])] = SP)

\* parseHTTPReq after the request line: rl is what parseRequestLine gave,
\* headers are the lines after the first.
parseHeaders(rl, headers) ==
    IF rl.err # NoError THEN rl
    ELSE IF \E i \in 1..Len(headers) : ~validateHeader(headers[i])
    THEN [err |-> HTTPError(400, mBadHeader), req |-> NoReq]
    ELSE [err |-> NoError,
          req |-> [method |-> rl.req.method, uri |-> rl.req.uri,
                   version |-> rl.req.version, headers |-> headers]]

\* parseHTTPReq on the lines of the header block.
parseLines(lines) ==
    parseHeaders(parseRequestLine(lines[1]), SubSeq(lines, 2, Len(lines) - 1))

parseHTTPReq(data) == parseLines(splitlines(data))

\* cutMessage with a terminator in the window: parse is what parseHTTPReq
\* gave for the header block, pop what bufPop does after it.
cutParsed(b, parse, pop) ==
    IF parse.err # NoError
    THEN [err |-> parse.err, found |-> FALSE, req |-> NoReq, buf |-> b]
    ELSE IF pop.threw
    THEN [err |-> RangeError, found |-> FALSE, req |-> NoReq, buf |-> pop.buf]
    ELSE [err |-> NoError, found |-> TRUE, req |-> parse.req, buf |-> pop.buf]

\* cutMessage: found tells a request from null; buf is the buffer as the
\* call leaves it, also when it raises.
cutMessage(b) ==
    LET idx == indexOf(window(b), <<CR, LF, CR, LF>>, 0)
    IN  IF idx < 0
        THEN IF b.length > kMaxHeaderLen
             THEN [err |-> HTTPError(413, mHeaderTooLong), found |-> FALSE,
                   req |-> NoReq, buf |-> b]
             ELSE [err |-> NoError, found |-> FALSE, req |-> NoReq, buf |-> b]
        ELSE cutParsed(b, parseHTTPReq(subarray(b.data, b.begin, idx + b.begin + 4)),
                       bufPop(b, idx + 4))

----------------------------------------------------------------------------
(* Body readers and the request handler.                                   *)

\* getField: the piece between the first and the second colon of the first
\* header line whose key matches, compared in lower case.
RECURSIVE getField(_, _)
getField(headers, key) ==
    IF Len(headers) = 0
    THEN [found |-> FALSE, value |-> <<>>]
    ELSE LET kv == split(toString(headers[1]), ":")
         IN  IF toLowerCase(kv[1]) = toLowerCase(key)
             THEN [found |-> TRUE, value |-> BufferFrom(kv[2])]
             ELSE getField(Tail(headers), key)

\* A reader over the connection: length is the declared length, bodyLen the
\* number of bytes still to deliver (the variable the closure captures).
NoReader == [length |-> 0, bodyLen |-> 0]

readerFromConnLength(bodyLen) == [length |-> bodyLen, bodyLen |-> bodyLen]

\* readerFromChunked raises before it builds a reader.
readerFromChunked == [err |-> Error(mFunctionNotImplemented), reader |-> NoReader]

\* Does the request carry the header Transfer-Encoding with value chunked?
isChunked(req) ==
    LET te == getField(req.headers, sTransferEncoding)
    IN  te.found /\ te.value = sChunked

bodyAllowed(req) == ~(req.method = sGET \/ req.method = sHEAD)

readerFromReq(req) ==
    LET contentLength == getField(req.headers, sContentLength)
        parsed == IF contentLength.found
                  THEN parseDec(toStringLatin1(contentLength.value))
                  ELSE Num(-1)
        chunked == isChunked(req)
        bodyLen == IF ~bodyAllowed(req) THEN 0 ELSE parsed.val
    IN  IF parsed.nan
        THEN [err |-> HTTPError(400, mBadContentLength), reader |-> NoReader]
        ELSE IF ~bodyAllowed(req) /\ (parsed.val > 0 \/ chunked)
        THEN [err |-> HTTPError(400, mBodyNotAllowed), reader |-> NoReader]
        ELSE IF chunked
        THEN readerFromChunked
        ELSE IF bodyLen >= 0
        THEN [err |-> NoError, reader |-> readerFromConnLength(bodyLen)]
        ELSE [err |-> Error(mNotImplemented), reader |-> NoReader]

\* A response body: the request's reader itself (kind "req"), or a reader
\* over a buffer in memory (kind "mem") with its done flag.
readerFromMemory(arg0) == [kind |-> "mem", data |-> arg0, done |-> FALSE]

NoRes == [code |-> 0, headers |-> <<>>, body |-> readerFromMemory(<<>>)]

handleReq(req) ==
    [code |-> 200,
     headers |-> <<sServerHeader>>,
     body |-> IF toStringLatin1(req.uri) = sEcho
              THEN [kind |-> "req", data |-> <<>>, done |-> FALSE]
              ELSE readerFromMemory(sGreeting)]

\* The length field of a response body.
bodyLength(body, rb) == IF body.kind = "req" THEN rb.length ELSE Len(body.data)

\* The part of readerFromConnLength's read after the buffer is known to
\* hold bytes: take min(buf.length, bodyLen) of them and pop them.
connTake(rb, b) ==
    LET availableData == Min(b.length, rb.bodyLen)
        pop == bufPop(b, availableData)
    IN  [out |-> IF pop.threw THEN "throw" ELSE "data",
         err |-> IF pop.threw THEN RangeError ELSE NoError,
         data |-> subarray(b.data, b.begin, b.begin + availableData),
         rb |-> [rb EXCEPT !.bodyLen = rb.bodyLen - availableData],
         buf |-> pop.buf]

\* One call of body.read() up to its first await: the chunk it returns
\* ("data"), the error it raises ("throw"), or "soRead" when it needs the
\* socket.
readStart(body, rb, b) ==
    IF body.kind = "mem"
    THEN [out |-> "data", err |-> NoError,
          data |-> IF body.done THEN <<>> ELSE body.data,
          rb |-> rb, buf |-> b]
    ELSE IF rb.bodyLen = 0
    THEN [out |-> "data", err |-> NoError, data |-> <<>>, rb |-> rb, buf |-> b]
    ELSE IF b.length = 0
    THEN [out |-> "soRead", err |-> NoError, data |-> <<>>, rb |-> rb, buf |-> b]
    ELSE connTake(rb, b)

\* A read that takes the end of the stream for a chunk like any other.
readResume_NoEOFCheck(rb, b, data) == connTake(rb, bufPush(b, data))

\* The rest of readerFromConnLength's read once soRead has delivered data.
readResume(rb, b, data) ==
    LET pushedBuf == bufPush(b, data)
    IN  IF Len(data) = 0
        THEN [out |-> "throw", err |-> HTTPError(400, mUnexpectedEOF),
              data |-> <<>>, rb |-> rb, buf |-> pushedBuf]
        ELSE connTake(rb, pushedBuf)

----------------------------------------------------------------------------
(* The response encoder.                                                   *)

\* kReasons, for the codes this server produces.
getReasonFromCode(code) ==
    CASE code = 200 -> rOK
      [] code = 400 -> rBadRequest
      [] code = 405 -> rMethodNotAllowed
      [] code = 413 -> rPayloadTooLarge
      [] code = 505 -> rVersionNotSupported
      [] OTHER -> rUnknown

RECURSIVE joinCRLF(_)
joinCRLF(lines) ==
    IF Len(lines) = 0 THEN <<>>
    ELSE IF Len(lines) = 1 THEN lines[1]
    ELSE lines[1] \o CRLF \o joinCRLF(Tail(lines))

contentLengthHeader(n) == sContentLengthPrefix \o toDec(n)

encodeHTTPRes(code, headers) ==
    sStatusPrefix \o toDec(code) \o <<SP>> \o getReasonFromCode(code) \o CRLF
    \o joinCRLF(headers) \o CRLF \o CRLF

----------------------------------------------------------------------------
(* Payload bytes.                                                          *)

Alphabet == <<"a", "b", "c", "d", "e", "f", "g">>

\* The n bytes pushed after `from` earlier ones: the stream a b c d e f g a ...
Bytes(from, n) == [i \in 1..n |-> Alphabet[((from + i - 1) % Len(Alphabet)) + 1]]

----------------------------------------------------------------------------
(* The promise based socket API, as far as one connection loop uses it.    *)
(*                                                                         *)
(* io is the state of the one operation the loop awaits: "run" while the   *)
(* loop runs, "read" or "write" while a soRead or soWrite is pending,      *)
(* "ok" or "err" once it is settled and the loop is about to resume.       *)
(* Socket events are delivered only while the loop is suspended.           *)

soInit == [reader |-> FALSE, ended |-> FALSE, err |-> FALSE]

\* No soRead call yet.
NoRead == [calls |-> 0, settles |-> 0, how |-> "none", awaited |-> FALSE]

\* The state of what the drivers of the socket API keep, where they do not
\* run: soInit has attached its "data" handler, so the socket is flowing.
\* soListen: a listener that does not listen yet.  connectionHandler is 0
\* for null, or the number of the soAccept call whose callbacks it holds;
\* listens counts the calls of server.listen.
soListen == [connectionHandler |-> 0, err |-> FALSE, listening |-> FALSE,
             listens |-> 0]

ExtIdle ==
    /\ flowing = TRUE
    /\ rd = NoRead
    /\ listener = soListen
    /\ accepts = <<>>
    /\ arrived = 0
    /\ uncaught = FALSE
    /\ accPc = "off"
    /\ cur = 0
    /\ parked = <<>>

\* The body of the "data" handler: resolve the reader, clear the slot.
onData_KeepReader(c) == c

onData(c) == [c EXCEPT !.reader = FALSE]

\* The body of the "end" handler.
onEnd(c) == [c EXCEPT !.ended = TRUE, !.reader = FALSE]

\* The body of the "error" handler: the error is kept.
onError(c) == [c EXCEPT !.err = TRUE, !.reader = FALSE]

\* A soRead that does not look at the error the connection keeps.
soRead_NoErrorCheck(c) ==
    IF c.ended THEN [io |-> "ok", conn |-> c]
    ELSE [io |-> "read", conn |-> [c EXCEPT !.reader = TRUE]]

\* soRead: rejects at once after an error, resolves at once with an empty
\* chunk after the end, and registers the reader otherwise.
soRead(c) ==
    IF c.err THEN [io |-> "err", conn |-> c]
    ELSE IF c.ended THEN [io |-> "ok", conn |-> c]
    ELSE [io |-> "read", conn |-> [c EXCEPT !.reader = TRUE]]

\* soWrite: rejects at once after an error, without writing to the socket.
soWrite(c) == IF c.err THEN "err" ELSE "write"

\* A socket.write that goes on after socket.end().
socketWrite_AfterEnd(c, s) ==
    IF s.destroyed THEN [io |-> "err", conn |-> c, sock |-> s]
    ELSE [io |-> "write", conn |-> c, sock |-> s]

\* socket.write(data, callback) on socket s: on a destroyed socket the
\* callback gets an error; after socket.end() it gets one too and the
\* socket is destroyed with it, which the "error" handler sees before the
\* caller resumes; else the write is pending until its callback.
socketWrite(c, s) ==
    IF s.destroyed THEN [io |-> "err", conn |-> c, sock |-> s]
    ELSE IF c.ended
    THEN [io |-> "err", conn |-> onError(c),
          sock |-> [s EXCEPT !.destroyed = TRUE]]
    ELSE [io |-> "write", conn |-> c, sock |-> s]

\* A soWrite call: the state of its promise, and the connection and the
\* socket as the call leaves them.
soWriteOn(c, s) ==
    IF soWrite(c) = "err" THEN [io |-> "err", conn |-> c, sock |-> s]
    ELSE socketWrite(c, s)

\* socket.pause() and socket.resume(), on the flowing state of the socket.
pause_Ignored(f) == f

pause(f) == FALSE

resume(f) == TRUE

\* The flowing state after soRead with outcome s: it resumes the socket
\* when it keeps the callbacks of the read.
afterSoRead(s, f) == IF s.io = "read" THEN resume(f) ELSE f

\* An exception that no code catches ends the process (ends), and with it
\* every socket, the one of the running connection (s) included, and the
\* server: one raised in an event handler always, the rejection of a
\* promise that nobody awaits where the runtime is set to.  No code of the
\* process runs after that, and no callback is called.
ProcessEnds(ends, s) ==
    /\ uncaught' = (uncaught \/ ends)
    /\ sock' = IF ends THEN [s EXCEPT !.destroyed = TRUE] ELSE s
    /\ parked' = IF ends
                 THEN [c \in DOMAIN parked |->
                          [parked[c] EXCEPT !.sock.destroyed = TRUE]]
                 ELSE parked
    /\ listener' = IF ends THEN [listener EXCEPT !.listening = FALSE]
                   ELSE listener

\* The "data" event: the next k bytes of the client's stream, emitted while
\* the socket is flowing.  The handler pauses the socket and resolves the
\* pending read; without one, conn.reader!.resolve raises and the bytes
\* are lost.
DataEvent(k) ==
    /\ io \in {"read", "write"}
    /\ flowing /\ ~conn.ended /\ ~conn.err /\ ~sock.destroyed /\ ~uncaught
    /\ pos + k <= Len(stream)
    /\ pos' = pos + k
    /\ flowing' = pause(flowing)
    /\ IF conn.reader
       THEN /\ readVal' = SubSeq(stream, pos + 1, pos + k)
            /\ conn' = [conn EXCEPT !.reader = FALSE]
            /\ io' = "ok"
            /\ ProcessEnds(FALSE, sock)
       ELSE /\ ProcessEnds(TRUE, sock)
            /\ UNCHANGED <<readVal, conn, io>>
    /\ UNCHANGED <<pc, buf, stream, written, msg, reqBody, res, writer,
                   reading, failure, reqLog, delivered, bufVarsOnly, rd,
                   accepts, arrived, accPc, cur>>

\* The "end" event, once the socket has emitted every byte of the client's
\* stream, also while it is paused: the handler ends the socket's own side
\* and resolves the pending read, if there is one.  When the last bytes and
\* the end were both waiting in the paused socket, "end" follows "data" at
\* once, before the code that awaits the read goes on.
EndEvent ==
    /\ io \in {"read", "write"} \/ (io = "ok" /\ pc \in {"hdrRead", "bodyRead"})
    /\ ~conn.ended /\ ~conn.err /\ ~sock.destroyed /\ ~uncaught
    /\ pos = Len(stream)
    /\ conn' = onEnd(conn)
    /\ IF conn.reader
       THEN readVal' = <<>> /\ io' = "ok"
       ELSE UNCHANGED <<readVal, io>>
    /\ UNCHANGED <<pc, buf, sock, stream, pos, written, msg, reqBody, res,
                   writer, reading, failure, reqLog, delivered, bufVarsOnly, extVarsOnly>>

\* The "error" event: the socket is destroyed by then.  The handler keeps
\* the error and rejects the pending read.  When it is the pending write
\* that failed (writeFails), its callback was called with the error in the
\* same turn, before the handler; else the write stays pending until its
\* callback is called, without an error, in a later turn.
ErrorEvent(writeFails) ==
    /\ io \in {"read", "write"}
    /\ writeFails => io = "write"
    /\ ~conn.err /\ ~sock.destroyed /\ ~uncaught
    /\ conn' = onError(conn)
    /\ sock' = [sock EXCEPT !.destroyed = TRUE]
    /\ io' = IF conn.reader \/ writeFails THEN "err" ELSE io
    /\ UNCHANGED <<pc, buf, stream, pos, readVal, written, msg, reqBody,
                   res, writer, reading, failure, reqLog, delivered, bufVarsOnly, extVarsOnly>>

\* The callback of socket.write, without an error: the write is done, or
\* the socket was destroyed while it was pending.
WriteDone ==
    /\ io = "write" /\ ~uncaught
    /\ io' = "ok"
    /\ UNCHANGED <<pc, buf, conn, sock, stream, pos, readVal, written, msg,
                   reqBody, res, writer, reading, failure, reqLog, delivered, bufVarsOnly, extVarsOnly>>

----------------------------------------------------------------------------
(* newConn, serveClient and writeHTTPRes, one action per stretch of code   *)
(* between two awaits.                                                     *)

\* A catch block of newConn that writes the error response outside a try
\* block: the exception leaves newConn after its finally block.
innerCatch_Absent == "rethrow"

\* Where newConn goes when writeHTTPRes raises in its catch block: the try
\* block around the call catches and logs the exception, and newConn goes
\* on to its finally block.
innerCatch == "finally"

\* An exception raised under serveClient reaches the catch block of newConn;
\* one raised while the catch block writes the error response is swallowed.
Raise(e) ==
    IF writer = "catch"
    THEN pc' = innerCatch /\ UNCHANGED failure
    ELSE pc' = "catch" /\ failure' = e

\* serveClient returns.
returnTarget == "finally"

\* What follows writeHTTPRes: in serveClient, the connection is closed
\* after a response to an HTTP/1.0 request.
afterWriteRes(w, req) ==
    IF w = "catch" THEN "finally"
    ELSE IF req.version = sV10 THEN returnTarget
    ELSE "discard"

\* The top of serveClient's loop: cutMessage, then soRead without a message.
ServeLoop ==
    /\ pc = "loop" /\ ~uncaught
    /\ LET r == cutMessage(buf)
           s == soRead(conn)
       IN  /\ buf' = r.buf
           /\ IF r.err # NoError
              THEN /\ Raise(r.err)
                   /\ UNCHANGED <<io, conn, msg, reqLog>>
              ELSE IF r.found
              THEN /\ pc' = "haveReq"
                   /\ msg' = r.req
                   /\ reqLog' = Append(reqLog, r.req)
                   /\ UNCHANGED <<io, conn, failure>>
              ELSE /\ pc' = "hdrRead"
                   /\ io' = s.io
                   /\ conn' = s.conn
                   /\ UNCHANGED <<msg, reqLog, failure>>
           /\ flowing' = IF r.err = NoError /\ ~r.found
                         THEN afterSoRead(s, flowing) ELSE flowing
    /\ readVal' = <<>>
    /\ UNCHANGED <<sock, stream, pos, written, reqBody, res, writer, reading,
                   delivered, bufVarsOnly, rd, srvVarsOnly>>

\* serveClient after its soRead: push the data, then end, fail or loop.
HeaderRead ==
    /\ pc = "hdrRead" /\ ~uncaught
    /\ io \in {"ok", "err"}
    /\ io' = "run"
    /\ IF io = "err"
       THEN /\ Raise(SocketError)
            /\ UNCHANGED buf
       ELSE /\ buf' = bufPush(buf, readVal)
            /\ IF Len(readVal) = 0 /\ buf'.length = 0
               THEN pc' = returnTarget /\ UNCHANGED failure
               ELSE IF Len(readVal) = 0
               THEN Raise(HTTPError(400, mUnexpectedEOFLoop))
               ELSE pc' = "loop" /\ UNCHANGED failure
    /\ UNCHANGED <<conn, sock, stream, pos, readVal, written, msg, reqBody,
                   res, writer, reading, reqLog, delivered, bufVarsOnly, extVarsOnly>>

\* serveClient with a request: readerFromReq, then handleReq.
HaveRequest ==
    /\ pc = "haveReq" /\ ~uncaught
    /\ LET r == readerFromReq(msg)
       IN  IF r.err # NoError
           THEN /\ Raise(r.err)
                /\ UNCHANGED <<reqBody, res, delivered>>
           ELSE /\ pc' = "writeRes"
                /\ reqBody' = r.reader
                /\ delivered' = 0
                /\ res' = handleReq(msg)
                /\ UNCHANGED failure
    /\ UNCHANGED <<io, buf, conn, sock, stream, pos, readVal, written, msg,
                   writer, reading, reqLog, bufVarsOnly, extVarsOnly>>

\* The record of one socket.write: the head of a response with its status
\* code and the body length it declares, or a chunk of body.
headWrite(code, headers, len, w) ==
    [kind |-> "head", bytes |-> encodeHTTPRes(code, headers), code |-> code,
     length |-> len, writer |-> w]

bodyWrite(data, w) ==
    [kind |-> "body", bytes |-> data, code |-> 0, length |-> Len(data),
     writer |-> w]

\* The history of writes keeps the bytes and their order; the chunks of one
\* body are kept as one record, whatever the chunks they were written in.
logWrite(log, rec) ==
    IF rec.kind = "body" /\ Len(log) > 0 /\ log[Len(log)].kind = "body"
    THEN [log EXCEPT ![Len(log)].bytes = @ \o rec.bytes,
                     ![Len(log)].length = @ + rec.length]
    ELSE Append(log, rec)

\* writeHTTPRes up to its first await: the Content-Length header, then the
\* head in one write.
WriteRes ==
    /\ pc = "writeRes" /\ ~uncaught
    /\ LET len == bodyLength(res.body, reqBody)
           headers == Append(res.headers, contentLengthHeader(len))
       IN  IF len < 0
           THEN /\ Raise(Error(mWriterNotImplemented))
                /\ UNCHANGED <<io, res, written, conn, sock>>
           ELSE /\ res' = [res EXCEPT !.headers = headers]
                /\ conn' = soWriteOn(conn, sock).conn
                /\ sock' = soWriteOn(conn, sock).sock
                /\ IF soWriteOn(conn, sock).io = "err"
                   THEN /\ Raise(SocketError)
                        /\ UNCHANGED <<io, written>>
                   ELSE /\ written' = logWrite(written,
                                headWrite(res.code, headers, len, writer))
                        /\ io' = "write"
                        /\ pc' = "headWrite"
                        /\ UNCHANGED failure
    /\ UNCHANGED <<buf, stream, pos, readVal, msg, reqBody, writer,
                   reading, reqLog, delivered, bufVarsOnly, extVarsOnly>>

\* writeHTTPRes after a soWrite.
WriteSettled ==
    /\ pc \in {"headWrite", "bodyWrite"} /\ ~uncaught
    /\ io \in {"ok", "err"}
    /\ io' = "run"
    /\ IF io = "err"
       THEN Raise(SocketError)
       ELSE pc' = "bodyNext" /\ UNCHANGED failure
    /\ UNCHANGED <<buf, conn, sock, stream, pos, readVal, written, msg,
                   reqBody, res, writer, reading, reqLog, delivered, bufVarsOnly, extVarsOnly>>

\* What the caller of body.read() does with its outcome r: writeHTTPRes
\* (ctx "write") writes a non-empty chunk and stops at an empty one; the
\* discard loop of serveClient (ctx "discard") reads on until an empty one.
Consume(r, ctx) ==
    /\ buf' = r.buf
    /\ reqBody' = r.rb
    /\ LET writes == r.out # "throw" /\ ctx # "discard" /\ Len(r.data) > 0
       IN  /\ conn' = IF writes THEN soWriteOn(conn, sock).conn ELSE conn
           /\ sock' = IF writes THEN soWriteOn(conn, sock).sock ELSE sock
    /\ IF r.out = "throw"
       THEN /\ Raise(r.err)
            /\ io' = "run"
            /\ UNCHANGED written
       ELSE IF ctx = "discard"
       THEN /\ pc' = IF Len(r.data) > 0 THEN "discard" ELSE "loop"
            /\ io' = "run"
            /\ UNCHANGED <<written, failure>>
       ELSE IF Len(r.data) = 0
       THEN /\ pc' = afterWriteRes(writer, msg)
            /\ io' = "run"
            /\ UNCHANGED <<written, failure>>
       ELSE IF soWriteOn(conn, sock).io = "err"
       THEN /\ Raise(SocketError)
            /\ io' = "run"
            /\ UNCHANGED written
       ELSE /\ written' = logWrite(written, bodyWrite(r.data, writer))
            /\ io' = "write"
            /\ pc' = "bodyWrite"
            /\ UNCHANGED failure

\* The bytes the request's body reader has returned, after its call with
\* outcome r.
returned(r) == IF r.out = "data" THEN delivered + Len(r.data) ELSE delivered

\* A call of body.read(): it is consumed at once, or it awaits soRead.
CallRead(body, ctx) ==
    LET r == readStart(body, reqBody, buf)
        s == soRead(conn)
    IN  IF r.out = "soRead"
        THEN /\ pc' = "bodyRead"
             /\ reading' = ctx
             /\ io' = s.io
             /\ conn' = s.conn
             /\ flowing' = afterSoRead(s, flowing)
             /\ UNCHANGED <<buf, sock, reqBody, res, written, failure, delivered>>
        ELSE /\ Consume(r, ctx)
             /\ res' = IF body.kind = "mem" /\ ctx = "write"
                       THEN [res EXCEPT !.body.done = TRUE]
                       ELSE res
             /\ delivered' = IF body.kind = "req" THEN returned(r) ELSE delivered
             /\ UNCHANGED <<reading, flowing>>

\* The body loop of writeHTTPRes.
BodyNext ==
    /\ pc = "bodyNext" /\ ~uncaught
    /\ CallRead(res.body, "write")
    /\ UNCHANGED <<stream, pos, readVal, msg, writer, reqLog, bufVarsOnly,
                   rd, srvVarsOnly>>

\* serveClient's loop that discards the rest of the request body.
Discard ==
    /\ pc = "discard" /\ ~uncaught
    /\ CallRead([kind |-> "req", data |-> <<>>, done |-> FALSE], "discard")
    /\ UNCHANGED <<stream, pos, readVal, msg, writer, reqLog, bufVarsOnly,
                   rd, srvVarsOnly>>

\* readerFromConnLength's read after its soRead.
BodyRead ==
    /\ pc = "bodyRead" /\ ~uncaught
    /\ io \in {"ok", "err"}
    /\ IF io = "err"
       THEN /\ Raise(SocketError)
            /\ io' = "run"
            /\ UNCHANGED <<buf, conn, sock, reqBody, written, delivered>>
       ELSE /\ Consume(readResume(reqBody, buf, readVal), reading)
            /\ delivered' = returned(readResume(reqBody, buf, readVal))
    /\ UNCHANGED <<stream, pos, readVal, msg, res, writer, reading,
                   reqLog, bufVarsOnly, extVarsOnly>>

\* The catch block of newConn answers an HTTPError and nothing else.
answersError(error) == error.type = "HTTPError"

\* An error response whose body is the bare message.
errorResponse_BareMessage(error) ==
    [code |-> error.code,
     headers |-> <<>>,
     body |-> readerFromMemory(error.message)]

errorResponse(error) ==
    [code |-> error.code,
     headers |-> <<>>,
     body |-> readerFromMemory(error.message \o <<LF>>)]

Catch ==
    /\ pc = "catch" /\ ~uncaught
    /\ IF answersError(failure)
       THEN /\ res' = errorResponse(failure)
            /\ writer' = "catch"
            /\ pc' = "writeRes"
       ELSE /\ pc' = "finally"
            /\ UNCHANGED <<res, writer>>
    /\ UNCHANGED <<io, buf, conn, sock, stream, pos, readVal, written, msg,
                   reqBody, reading, failure, reqLog, delivered, bufVarsOnly, extVarsOnly>>

\* A finally block that leaves the socket as it is.
newConnFinally_NoDestroy(s) == s

\* The finally block of newConn: socket.destroy().
newConnFinally(s) == [s EXCEPT !.destroyed = TRUE]

\* The finally block, and the end of newConn.  An exception that the catch
\* block did not catch leaves newConn after it (rethrow): the promise that
\* httpServer does not await is rejected.
Finally ==
    /\ pc \in {"finally", "rethrow"} /\ ~uncaught
    /\ pc' = "done"
    /\ \E ends \in {FALSE, pc = "rethrow"} :
           ProcessEnds(ends, newConnFinally(sock))
    /\ UNCHANGED <<io, buf, conn, stream, pos, readVal, written, msg, reqBody,
                   res, writer, reading, failure, reqLog, delivered,
                   bufVarsOnly, flowing, rd, accepts, arrived, accPc, cur>>

----------------------------------------------------------------------------
(* The client: the byte stream it sends on one connection before it ends   *)
(* its side.  The network delivers the stream in chunks of any size.       *)

MaxBody == 3
LongBody == 8
BigBody == 43

RequestLine(method, uri, version) ==
    method \o <<SP>> \o uri \o <<SP>> \o version \o CRLF

HeaderLine(name, value) == name \o <<":", SP>> \o value \o CRLF

\* A GET request without headers.
Get(uri, version) == RequestLine(sGET, uri, version) \o CRLF

\* A POST request declaring n body bytes, followed by the first sent of them.
Post(uri, version, n, sent) ==
    RequestLine(sPOST, uri, version) \o HeaderLine(sContentLength, toDec(n))
    \o CRLF \o Bytes(0, sent)

\* A request with one header line and no body.
WithHeader(method, uri, name, value) ==
    RequestLine(method, uri, sHTTP11) \o HeaderLine(name, value) \o CRLF

\* A well-formed HTTP/1.1 request: GET (n = -1), or POST with n body bytes.
GetOf(uri) == [uri |-> uri, n |-> -1]
PostOf(uri, n) == [uri |-> uri, n |-> n]

Render(d) ==
    IF d.n < 0 THEN Get(d.uri, sHTTP11) ELSE Post(d.uri, sHTTP11, d.n, d.n)

RECURSIVE RenderAll(_)
RenderAll(ds) ==
    IF Len(ds) = 0 THEN <<>> ELSE Render(ds[1]) \o RenderAll(Tail(ds))

\* Sequences of well-formed HTTP/1.1 requests.
WellFormedSeqs ==
    {<<GetOf(sRoot)>>,
     <<GetOf(sRoot), GetOf(sEcho)>>,
     <<PostOf(sEcho, 0)>>,
     <<PostOf(sEcho, BigBody)>>,
     <<GetOf(sRoot), PostOf(sEcho, LongBody)>>,
     <<GetOf(sRoot), GetOf(sEcho), PostOf(sRoot, LongBody), GetOf(sRoot)>>}
    \cup {<<PostOf(sEcho, n)>> : n \in 1..MaxBody}
    \cup {<<PostOf(sRoot, n), GetOf(sRoot)>> : n \in 1..MaxBody}

WellFormedStreams == {RenderAll(ds) : ds \in WellFormedSeqs}

\* Streams whose first request is an HTTP/1.0 request.
Http10Streams ==
    {Get(sRoot, sHTTP10),
     Get(sRoot, sHTTP10) \o Get(sRoot, sHTTP11),
     Post(sEcho, sHTTP10, 2, 2) \o Get(sRoot, sHTTP11)}

\* Streams that end early or carry a request the server refuses.
FaultyStreams ==
    {<<>>,
     Post(sEcho, sHTTP11, 3, 2),
     Get(sRoot, sHTTP11) \o Post(sEcho, sHTTP11, LongBody, LongBody - 1),
     RequestLine(sPATCH, sRoot, sHTTP11) \o CRLF,
     WithHeader(sGET, sRoot, sContentLength, <<"5">>),
     RequestLine(sPOST, sRoot, sHTTP11) \o CRLF}

Streams == WellFormedStreams \cup Http10Streams \cup FaultyStreams

Init ==
    /\ stream \in Streams
    /\ pos = 0
    /\ pc = "loop"
    /\ io = "run"
    /\ readVal = <<>>
    /\ conn = soInit
    /\ sock = [destroyed |-> FALSE]
    /\ buf = EmptyBuf
    /\ written = <<>>
    /\ msg = NoReq
    /\ reqBody = NoReader
    /\ res = NoRes
    /\ writer = "serve"
    /\ reading = "write"
    /\ failure = NoError
    /\ reqLog = <<>>
    /\ delivered = 0
    /\ bufThrew = FALSE
    /\ pushed = 0
    /\ popped = 0
    /\ ExtIdle

Next ==
    \/ ServeLoop
    \/ HeaderRead
    \/ HaveRequest
    \/ WriteRes
    \/ WriteSettled
    \/ BodyNext
    \/ Discard
    \/ BodyRead
    \/ Catch
    \/ Finally
    \/ \E k \in 1..(Len(stream) - pos) : DataEvent(k)
    \/ EndEvent
    \/ \E writeFails \in BOOLEAN : ErrorEvent(writeFails)
    \/ WriteDone

Spec == Init /\ [][Next]_vars

----------------------------------------------------------------------------
(* A driver of the DynBuf alone: any bufPush, and any bufPop of at most    *)
(* the current length, starting from the empty buffer.                     *)

MaxPushed == 40
MaxPushLen == 35

BufInit ==
    /\ buf = EmptyBuf
    /\ bufThrew = FALSE
    /\ pushed = 0
    /\ popped = 0
    /\ ExtIdle
    /\ stream = <<>>
    /\ pos = 0
    /\ pc = "idle"
    /\ io = "run"
    /\ readVal = <<>>
    /\ conn = soInit
    /\ sock = [destroyed |-> FALSE]
    /\ written = <<>>
    /\ msg = NoReq
    /\ reqBody = NoReader
    /\ res = NoRes
    /\ writer = "serve"
    /\ reading = "write"
    /\ failure = NoError
    /\ reqLog = <<>>
    /\ delivered = 0

Push(n) ==
    /\ ~bufThrew
    /\ pushed + n <= MaxPushed
    /\ buf' = bufPush(buf, Bytes(pushed, n))
    /\ pushed' = pushed + n
    /\ UNCHANGED <<bufThrew, popped, connVarsOnly, extVarsOnly>>

Pop(count) ==
    /\ ~bufThrew
    /\ LET r == bufPop(buf, count)
       IN  /\ buf' = r.buf
           /\ bufThrew' = r.threw
           /\ popped' = IF r.threw THEN popped ELSE popped + count
    /\ UNCHANGED <<pushed, connVarsOnly, extVarsOnly>>

BufNext ==
    \/ \E n \in 0..MaxPushLen : Push(n)
    \/ \E count \in 0..buf.length : Pop(count)

SpecBuf == BufInit /\ [][BufNext]_vars

----------------------------------------------------------------------------
(* A driver of readerFromReq and handleReq alone: one request, with any    *)
(* method of kHttpMethods and any of these header blocks, handed to the    *)
(* step of serveClient that builds the body reader and calls the handler.  *)

MaxDeclared == 5

\* Content-Length header lines: the decimal values "Content-Length: n",
\* and values that are not decimal numbers.
DecimalLengthLines == {contentLengthHeader(n) : n \in 0..MaxDeclared}

NonDecimalLengthLines ==
    {sContentLengthPrefix \o <<"a", "b", "c">>,
     sContentLengthPrefix \o <<"5", "x">>}

\* Values with a byte in front of the digit: white space of parseInt (a
\* vertical tab), a lone 0xA0 and the two bytes of U+00A0.
sContentLengthColon == sContentLength \o <<":">>

PaddedLengthLines ==
    {sContentLengthColon \o <<VT, "5">>,
     sContentLengthColon \o <<xA0, "5">>,
     sContentLengthColon \o <<xC2, xA0, "5">>}

negativeLengthLine == sContentLengthPrefix \o <<"-", "5">>

\* The header line "Transfer-Encoding: chunked", and the same without the
\* space after the colon.
chunkedLine == sTransferEncoding \o <<":", SP>> \o sChunked
chunkedLineNoSpace == sTransferEncoding \o <<":">> \o sChunked

HeaderBlocks ==
    {<<>>}
    \cup {<<l>> : l \in DecimalLengthLines \cup NonDecimalLengthLines
                          \cup PaddedLengthLines}
    \cup {<<negativeLengthLine>>, <<chunkedLine>>, <<chunkedLineNoSpace>>}
    \cup {<<l, chunkedLine>> : l \in DecimalLengthLines}

ReqInputs ==
    {[method |-> m, uri |-> u, version |-> sV11, headers |-> h] :
        m \in kHttpMethods \ {sOPTIONS, sCONNECT}, u \in {sRoot, sEcho},
        h \in HeaderBlocks}

ReqInit ==
    /\ msg \in ReqInputs
    /\ pc = "haveReq"
    /\ stream = <<>>
    /\ pos = 0
    /\ io = "run"
    /\ readVal = <<>>
    /\ conn = soInit
    /\ sock = [destroyed |-> FALSE]
    /\ buf = EmptyBuf
    /\ written = <<>>
    /\ reqBody = NoReader
    /\ res = NoRes
    /\ writer = "serve"
    /\ reading = "write"
    /\ failure = NoError
    /\ reqLog = <<>>
    /\ delivered = 0
    /\ bufThrew = FALSE
    /\ pushed = 0
    /\ popped = 0
    /\ ExtIdle

ReqNext == HaveRequest

SpecReq == ReqInit /\ [][ReqNext]_vars

----------------------------------------------------------------------------
(* What the history of writes says.                                        *)

Range(f) == {f[i] : i \in DOMAIN f}

Heads(log) == SelectSeq(log, LAMBDA r : r.kind = "head")

\* The body bytes written after the head at index i, before the next head.
BodyAfter(log, i) ==
    IF i < Len(log) /\ log[i + 1].kind = "body" THEN log[i + 1].bytes ELSE <<>>

\* The response at index i is over: another head follows it, or newConn
\* is done.
ResponseOver(log, i) == (\E j \in (i + 1)..Len(log) : log[j].kind = "head") \/ pc = "done"

\* The head carries the header line Content-Length: n.
CarriesLength(head, n) ==
    indexOf(head, CRLF \o contentLengthHeader(n) \o CRLF, 0) >= 0

\* The well-formed requests of a well-formed stream.
Expected(s) == CHOOSE ds \in WellFormedSeqs : RenderAll(ds) = s

\* The number of bytes of the first k of them.
Offset(ds, k) == Len(RenderAll(SubSeq(ds, 1, k)))

\* The body length of the response to a well-formed request.
ExpectedLength(d) ==
    IF d.uri = sEcho THEN (IF d.n < 0 THEN 0 ELSE d.n) ELSE Len(sGreeting)

\* The connection ended without a socket error.
DoneClean == pc = "done" /\ ~conn.err

----------------------------------------------------------------------------
(* The claims.                                                             *)

\* C1: on a connection that carries a sequence of well-formed HTTP/1.1
\* requests (GET, and POST with Content-Length N and N body bytes), however
\* the bytes are split into chunks, every request is parsed once and in
\* order, one 200 response is written per request in that order, and at the
\* top of the loop the unconsumed window starts at the first byte of the
\* next request.
C1_OneResponsePerRequest ==
    stream \in WellFormedStreams =>
        LET ds == Expected(stream)
            heads == Heads(written)
        IN  /\ pc = "loop" =>
                   window(buf) = SubSeq(stream, Offset(ds, Len(reqLog)) + 1, pos)
            /\ DoneClean =>
                   /\ Len(reqLog) = Len(ds)
                   /\ \A i \in 1..Len(ds) :
                          /\ reqLog[i].uri = ds[i].uri
                          /\ reqLog[i].method = IF ds[i].n < 0 THEN sGET ELSE sPOST
                   /\ Len(heads) = Len(ds)
                   /\ \A i \in 1..Len(ds) :
                          /\ heads[i].code = 200
                          /\ heads[i].length = ExpectedLength(ds[i])

\* C2: a POST /echo with Content-Length N >= 1 and exactly N body bytes,
\* however the bytes are split into chunks, gets one response with status
\* 200, the header Content-Length: N, and the N request body bytes as its
\* body.
C2_EchoReturnsBody ==
    \A n \in 1..MaxBody :
        (stream = Post(sEcho, sHTTP11, n, n) /\ DoneClean) =>
            /\ Len(written) = 2
            /\ written[1].kind = "head"
            /\ written[1].code = 200
            /\ CarriesLength(written[1].bytes, n)
            /\ written[2].kind = "body"
            /\ written[2].bytes = Bytes(0, n)

\* C3: after any sequence of bufPush and bufPop calls on an empty DynBuf,
\* every pop count being at most the current length and every call having
\* returned, 0 <= begin and begin + length <= capacity.
C3_WindowWithinCapacity ==
    ~bufThrew => (0 <= buf.begin /\ buf.begin + buf.length <= Len(buf.data))

\* The request carries a Content-Length greater than 0, or the header
\* Transfer-Encoding: chunked.
CarriesBody(req) ==
    \/ \E n \in 1..MaxDeclared : contentLengthHeader(n) \in Range(req.headers)
    \/ chunkedLine \in Range(req.headers)

\* The request has no Content-Length header, or Content-Length: 0, and is
\* not chunked.
CarriesNoBody(req) ==
    /\ req.headers \in {<<>>, <<contentLengthHeader(0)>>}

\* readerFromReq and handleReq have run on the request.
Handled == pc # "haveReq"
Dispatched == pc = "writeRes"

\* C4: a GET or HEAD request with a Content-Length greater than 0 or with
\* Transfer-Encoding: chunked raises 400 "Body not allowed" and the handler
\* is not dispatched; any other GET or HEAD request gets a body reader of
\* declared length 0.
C4_NoBodyOnGetHead ==
    (Handled /\ msg.method \in {sGET, sHEAD}) =>
        /\ CarriesBody(msg) =>
               /\ failure = HTTPError(400, mBodyNotAllowed)
               /\ ~Dispatched
        /\ CarriesNoBody(msg) =>
               /\ Dispatched
               /\ reqBody.length = 0

\* C5: readerFromReq raises 400 "Bad Content-Length" exactly when a
\* Content-Length header is present and its value is not a decimal number;
\* for every decimal value N >= 0 on a method that permits a body, without
\* chunked encoding, it returns a reader of declared length N.
C5_ContentLengthDecimal ==
    Handled =>
        /\ failure = HTTPError(400, mBadContentLength)
               <=> (\E l \in NonDecimalLengthLines \cup PaddedLengthLines :
                        l \in Range(msg.headers))
        /\ \A n \in 0..MaxDeclared :
               (msg.headers = <<contentLengthHeader(n)>> /\ bodyAllowed(msg)) =>
                   /\ Dispatched
                   /\ reqBody = readerFromConnLength(n)

\* C6: a request with Transfer-Encoding: chunked on a method that permits
\* a body gets a body reader that decodes the chunked body; so building the
\* reader does not fail.
C6_ChunkedReader ==
    (Handled /\ bodyAllowed(msg)
        /\ msg.headers \in {<<chunkedLine>>, <<chunkedLineNoSpace>>}) =>
            /\ failure = NoError
            /\ Dispatched

\* C7: on a connection whose first request is an HTTP/1.0 request,
\* serveClient writes exactly one response and exits: one request is
\* parsed, also when the bytes of a following request are in the buffer.
C7_Http10OneResponse ==
    (stream \in Http10Streams /\ DoneClean) =>
        /\ Len(reqLog) = 1
        /\ Len(Heads(written)) = 1

\* C8: every head written carries a Content-Length header equal to the
\* declared length of the body reader, and once the response is over, the
\* body bytes written after the head are as many.
C8_BodyMatchesLength ==
    \A i \in 1..Len(written) :
        written[i].kind = "head" =>
            /\ CarriesLength(written[i].bytes, written[i].length)
            /\ (ResponseOver(written, i) /\ ~conn.err) =>
                   Len(BodyAfter(written, i)) = written[i].length

\* C9: newConn completes only with the socket destroyed, whatever way
\* serveClient was left.
C9_DestroyedOnExit == pc = "done" => sock.destroyed

\* A failure while the error response is written: newConn is done, the
\* socket is destroyed, the failure was an HTTPError and the socket failed.
C9_Witness ==
    /\ pc = "done" /\ sock.destroyed
    /\ failure.type = "HTTPError" /\ writer = "catch" /\ conn.err

\* The error responses in the history of writes.
ErrorHeads == {i \in 1..Len(written) : written[i].kind = "head" /\ written[i].writer = "catch"}

\* newConn has left its catch block, or never entered it.
PastCatch == pc \in {"finally", "done"}

\* What C10 says apart from the body: an error response is attempted
\* exactly for an HTTPError, with the error's code; a failure of that
\* write does not reach the catch block again.
C10_Attempt ==
    /\ writer = "catch" => (failure.type = "HTTPError" /\ res.code = failure.code)
    /\ (PastCatch /\ failure.type = "HTTPError") => writer = "catch"
    /\ failure.type \notin {"none", "HTTPError"} => (writer = "serve" /\ ErrorHeads = {})
    /\ pc = "catch" => writer = "serve"
    /\ \A i \in ErrorHeads : written[i].code = failure.code

\* C10 as claimed: ... and the body of the error response is the error
\* message.
C10_BodyIsMessage ==
    /\ C10_Attempt
    /\ writer = "catch" => res.body.data = failure.message
    /\ \A i \in ErrorHeads :
           (ResponseOver(written, i) /\ ~conn.err) =>
               BodyAfter(written, i) = failure.message

\* C10, amended: newConn attempts an error response exactly when the
\* failure is an HTTPError; its status code is the error's code and its
\* body is the error message followed by a line feed; a failure of that
\* write is swallowed; after any other failure nothing is written.
C10_BodyIsMessageLine ==
    /\ C10_Attempt
    /\ writer = "catch" => res.body.data = failure.message \o <<LF>>
    /\ \A i \in ErrorHeads :
           (ResponseOver(written, i) /\ ~conn.err) =>
               BodyAfter(written, i) = failure.message \o <<LF>>

\* An error response written in full: 405 for the PATCH request.
C10_Witness ==
    /\ DoneClean /\ writer = "catch"
    /\ failure = HTTPError(405, mMethodNotAllowed)
    /\ Len(written) = 2
    /\ written[2].bytes = mMethodNotAllowed \o <<LF>>

----------------------------------------------------------------------------
(* Claims about the dynamic buffer's capacity and contents.                *)

\* c is 32 times a power of two.
RECURSIVE IsDoubledMinCap(_)
IsDoubledMinCap(c) ==
    IF c < kMinCap THEN FALSE
    ELSE IF c = kMinCap THEN TRUE
    ELSE c % 2 = 0 /\ IsDoubledMinCap(c \div 2)

\* The free space behind the window.
freeSpace(b) == Len(b.data) - b.begin - b.length

\* C19: a bufPush of data longer than the free space behind the window
\* leaves a capacity that is at least twice the capacity before (at least
\* 32), is 32 times a power of two, and holds the new bytes at offset
\* begin + length; and no bufPush or bufPop decreases the capacity.
C19_PushGrowsCapacity ==
    [][LET n == pushed' - pushed
       IN  /\ Len(buf'.data) >= Len(buf.data)
           /\ (~bufThrew' /\ n > freeSpace(buf)) =>
                  /\ Len(buf'.data) >= 2 * Len(buf.data)
                  /\ Len(buf'.data) >= kMinCap
                  /\ IsDoubledMinCap(Len(buf'.data))
                  /\ buf.begin + buf.length + n <= Len(buf'.data)]_vars

\* C20: after any bufPush and bufPop calls that returned, the window holds
\* the bytes pushed so far without the bytes popped so far, in order.
C20_WindowIsFifo ==
    ~bufThrew => window(buf) = Bytes(popped, pushed - popped)

----------------------------------------------------------------------------
(* A driver of parseRequestLine alone: one request line, made of tokens    *)
(* joined by single spaces, handed to the parser.                          *)

RECURSIVE joinSP(_)
joinSP(tokens) ==
    IF Len(tokens) = 0 THEN <<>>
    ELSE IF Len(tokens) = 1 THEN tokens[1]
    ELSE tokens[1] \o <<SP>> \o joinSP(Tail(tokens))

sStar == <<"*">>
sHostPort == <<"h", ":", "1">>
sHTTP20 == <<"H", "T", "T", "P", "/", "2", ".", "0">>
sFTP11 == <<"F", "T", "P", "/", "1", ".", "1">>
sHTTP11Slash == sHTTP11 \o <<"/", "x">>
sBare11 == sV11

LineMethods == kHttpMethods \cup {sPATCH, toLowerCase(sGET), <<>>}
\* URIs with bytes above 0x7F: a lone 0xE9 and a lone 0xFF, which are not
\* UTF-8, and the two bytes of U+00E9.
sLatinE == <<xE9>>
sLoneFF == <<xFF>>
sUtf8E == <<xC3, xA9>>

LineURIs == {sRoot, sEcho, sStar, sHostPort, <<>>, sLatinE, sLoneFF, sUtf8E,
             sRoot \o sLatinE, sRoot \o sUtf8E}
LineVersions == {sHTTP10, sHTTP11, sHTTP20, sFTP11, sHTTP11Slash, sBare11}

LineInputs ==
    {joinSP(<<m, u, v>>) : m \in LineMethods, u \in LineURIs, v \in LineVersions}
    \cup {joinSP(<<m, u>>) : m \in LineMethods, u \in LineURIs}
    \cup {joinSP(<<m, u, v, v>>) : m \in {sGET, sPATCH}, u \in {sRoot}, v \in LineVersions}

LineInit ==
    /\ stream \in LineInputs
    /\ pc = "line"
    /\ pos = 0
    /\ io = "run"
    /\ readVal = <<>>
    /\ conn = soInit
    /\ sock = [destroyed |-> FALSE]
    /\ buf = EmptyBuf
    /\ written = <<>>
    /\ msg = NoReq
    /\ reqBody = NoReader
    /\ res = NoRes
    /\ writer = "serve"
    /\ reading = "write"
    /\ failure = NoError
    /\ reqLog = <<>>
    /\ delivered = 0
    /\ bufThrew = FALSE
    /\ pushed = 0
    /\ popped = 0
    /\ ExtIdle

\* parseRequestLine on the line: what it returns, or what it raises.
ParseLine ==
    /\ pc = "line"
    /\ LET r == parseRequestLine(stream)
       IN  /\ msg' = r.req
           /\ failure' = r.err
    /\ pc' = "lineDone"
    /\ UNCHANGED <<buf, stream, pos, conn, sock, io, readVal, reqBody, res,
                   writer, reading, written, reqLog, delivered, bufVarsOnly, extVarsOnly>>

LineNext == ParseLine

SpecLine == LineInit /\ [][LineNext]_vars

\* The eight methods, the versions and the URI rules as the request line
\* format states them.
StatedMethods == {sGET, sPOST, sPUT, sDELETE, sHEAD, sOPTIONS, sTRACE, sCONNECT}

StatedBadURI(method, uri) ==
    \/ uri = <<>>
    \/ method = sCONNECT /\ ~includes(uri, ":")
    \/ method = sOPTIONS /\ uri # sStar

\* C18: parseRequestLine raises 400 unless the line has exactly 3 tokens
\* separated by spaces; else 405 unless the method is one of the eight;
\* else 400 for an empty URI, a CONNECT URI without a colon or an OPTIONS
\* URI other than *; else 505 unless the third token is HTTP/1.0 or
\* HTTP/1.1; else it returns the method, the URI and the version.
C18_RequestLineOrder ==
    pc = "lineDone" =>
        LET t == split(stream, SP)
        IN  IF Len(t) # 3
            THEN failure.type = "HTTPError" /\ failure.code = 400
            ELSE IF t[1] \notin StatedMethods
            THEN failure.type = "HTTPError" /\ failure.code = 405
            ELSE IF StatedBadURI(t[1], t[2])
            THEN failure.type = "HTTPError" /\ failure.code = 400
            ELSE IF t[3] \notin {sHTTP10, sHTTP11}
            THEN failure.type = "HTTPError" /\ failure.code = 505
            ELSE /\ failure = NoError
                 /\ msg.method = t[1]
                 /\ msg.uri = t[2]
                 /\ msg.version = SubSeq(t[3], 6, Len(t[3]))

----------------------------------------------------------------------------
(* The framing stage of serveClient on long header blocks: a request line, *)
(* one long header line and, or not, the terminator; delivered whole or in *)
(* large chunks.                                                           *)

MaxOver == 2
BigChunk == 4096
SmallChunk == 3000

sTerminator == CRLF \o CRLF

\* The start of a header block with one header line "X:aaa...": n bytes.
LongHeader(n) ==
    LET start == RequestLine(sGET, sRoot, sHTTP11) \o <<"X", ":">>
    IN  start \o [i \in 1..(n - Len(start)) |-> "a"]

\* A header block of n bytes, terminator included.
LongBlock(n) == LongHeader(n - Len(sTerminator)) \o sTerminator

LongLens == (kMaxHeaderLen - 1)..(kMaxHeaderLen + MaxOver)

BigStreams == {LongBlock(n) : n \in LongLens} \cup {LongHeader(n) : n \in LongLens}

\* The chunks in which the rest of a stream is delivered: all of it, all
\* but its last byte, kMaxHeaderLen bytes or one more, or a large chunk.
BigChunks(rest) ==
    {k \in {rest - 1, rest, kMaxHeaderLen, kMaxHeaderLen + 1, BigChunk, SmallChunk} :
        1 <= k /\ k <= rest}

BigInit ==
    /\ stream \in BigStreams
    /\ pos = 0
    /\ pc = "loop"
    /\ io = "run"
    /\ readVal = <<>>
    /\ conn = soInit
    /\ sock = [destroyed |-> FALSE]
    /\ buf = EmptyBuf
    /\ written = <<>>
    /\ msg = NoReq
    /\ reqBody = NoReader
    /\ res = NoRes
    /\ writer = "serve"
    /\ reading = "write"
    /\ failure = NoError
    /\ reqLog = <<>>
    /\ delivered = 0
    /\ bufThrew = FALSE
    /\ pushed = 0
    /\ popped = 0
    /\ ExtIdle

BigNext ==
    \/ ServeLoop
    \/ HeaderRead
    \/ \E k \in BigChunks(Len(stream) - pos) : DataEvent(k)
    \/ EndEvent

SpecBig == BigInit /\ [][BigNext]_vars

----------------------------------------------------------------------------
(* Claims about the framer.                                                *)

\* The offset of the first terminator in the window, or -1.
terminatorAt(b) == indexOf(window(b), sTerminator, 0)

\* The header block cutMessage hands to parseHTTPReq.
headerBlock(b) == subarray(window(b), 0, terminatorAt(b) + 4)

\* C16: when the window holds a terminator and the header block parses,
\* cutMessage removes exactly the block, up to and including the first
\* terminator, and leaves the bytes after it in order; without a
\* terminator, or when the parser raises, begin and length are unchanged.
C16_CutTakesHeaderBlock ==
    [][pc = "loop" =>
          IF terminatorAt(buf) >= 0 /\ parseHTTPReq(headerBlock(buf)).err = NoError
          THEN /\ buf'.length = buf.length - (terminatorAt(buf) + 4)
               /\ window(buf') = subarray(window(buf), terminatorAt(buf) + 4,
                                          Len(window(buf)))
          ELSE /\ buf'.begin = buf.begin
               /\ buf'.length = buf.length]_vars

\* C17: cutMessage raises 413 "Header too long" whenever the header in the
\* window is longer than 8192 bytes, with or without its terminator, so no
\* header block of more than 8192 bytes is handed to the request parser.
C17_HeaderAtMost8192 ==
    [][pc = "loop" =>
          /\ terminatorAt(buf) >= 0 => Len(headerBlock(buf)) <= kMaxHeaderLen
          /\ (terminatorAt(buf) >= 0 /\ Len(headerBlock(buf)) > kMaxHeaderLen)
                 \/ (terminatorAt(buf) < 0 /\ buf.length > kMaxHeaderLen)
                 => failure' = HTTPError(413, mHeaderTooLong)]_vars

----------------------------------------------------------------------------
(* A driver of the socket API alone: a caller that, as serveClient and the *)
(* body readers do, calls soRead in the turn that called soInit and awaits *)
(* every soRead and soWrite before its next call, on a socket that its     *)
(* owner may destroy at any time.                                          *)
(*                                                                         *)
(* The socket emits "data" only while it is flowing (resumed by soRead,    *)
(* paused by the "data" handler), "end" once after the last byte, "error"  *)
(* at most once, and nothing after it is destroyed.  The continuation of a *)
(* settled promise runs before the next event, but for the "end" that the  *)
(* socket emits at once after its last "data", and the socket that has     *)
(* ended both ways is destroyed one turn later.                            *)

MaxCalls == 3
MaxWrites == 2
MaxSockBytes == 2

\* The reader of the latest soRead call is resolved or rejected once more.
settled(r, how) == [r EXCEPT !.settles = @ + 1, !.how = how]

SockInit ==
    /\ stream \in {Bytes(0, n) : n \in 0..MaxSockBytes}
    /\ pos = 0
    /\ pc = "api"
    /\ io = "run"
    /\ readVal = <<>>
    /\ conn = soInit
    /\ sock = [destroyed |-> FALSE]
    /\ buf = EmptyBuf
    /\ written = <<>>
    /\ msg = NoReq
    /\ reqBody = NoReader
    /\ res = NoRes
    /\ writer = "serve"
    /\ reading = "write"
    /\ failure = NoError
    /\ reqLog = <<>>
    /\ delivered = 0
    /\ bufThrew = FALSE
    /\ pushed = 0
    /\ popped = 0
    /\ ExtIdle

\* The caller calls soRead.
SockRead ==
    /\ pc = "api" /\ io = "run"
    /\ rd.calls < MaxCalls
    /\ LET s == soRead(conn)
       IN  /\ conn' = s.conn
           /\ io' = s.io
           /\ flowing' = IF s.io = "read" THEN TRUE ELSE flowing
           /\ readVal' = <<>>
           /\ rd' = [calls |-> rd.calls + 1,
                     settles |-> IF s.io = "read" THEN 0 ELSE 1,
                     how |-> IF s.io = "read" THEN "pending"
                             ELSE IF s.io = "err" THEN "kept error"
                             ELSE "ended",
                     awaited |-> FALSE]
    /\ UNCHANGED <<buf, stream, pos, sock, pc, msg, reqBody, res, writer,
                   reading, failure, written, reqLog, delivered, bufVarsOnly, srvVarsOnly>>

\* The caller calls soWrite with one byte.
SockWrite ==
    /\ pc = "api" /\ io = "run"
    /\ rd.calls > 0
    /\ Len(written) < MaxWrites
    /\ LET w == soWriteOn(conn, sock)
       IN  /\ io' = w.io
           /\ conn' = w.conn
           /\ sock' = w.sock
           /\ written' = IF w.io = "write"
                         THEN Append(written, bodyWrite(<<"x">>, "serve"))
                         ELSE written
    /\ UNCHANGED <<buf, stream, pos, readVal, pc, msg, reqBody, res, writer,
                   reading, failure, reqLog, delivered, bufVarsOnly, extVarsOnly>>

\* The caller's await returns or throws.
SockResume ==
    /\ pc = "api" /\ io \in {"ok", "err"}
    /\ io' = "run"
    /\ rd' = [rd EXCEPT !.awaited = TRUE]
    /\ UNCHANGED <<buf, stream, pos, conn, sock, readVal, pc, msg, reqBody,
                   res, writer, reading, failure, written, reqLog,
                   delivered, bufVarsOnly, flowing, srvVarsOnly>>

\* The "data" event with the next k bytes: pause, resolve, clear the slot.
SockData(k) ==
    /\ pc = "api" /\ io \in {"run", "read", "write"}
    /\ flowing /\ ~sock.destroyed /\ ~conn.ended
    /\ conn.reader
    /\ pos + k <= Len(stream)
    /\ flowing' = FALSE
    /\ readVal' = SubSeq(stream, pos + 1, pos + k)
    /\ pos' = pos + k
    /\ conn' = onData(conn)
    /\ rd' = settled(rd, "data")
    /\ io' = "ok"
    /\ UNCHANGED <<buf, stream, sock, pc, msg, reqBody, res, writer, reading,
                   failure, written, reqLog, delivered, bufVarsOnly, srvVarsOnly>>

\* The "end" event, once every byte is delivered; also while paused, and
\* right after the "data" event that resolved the read, before the caller
\* goes on.
SockEnd ==
    /\ pc = "api"
    /\ io \in {"run", "read", "write"}
          \/ (io = "ok" /\ rd.how = "data" /\ ~rd.awaited)
    /\ rd.calls > 0
    /\ ~sock.destroyed /\ ~conn.ended
    /\ pos = Len(stream)
    /\ conn' = onEnd(conn)
    /\ IF conn.reader
       THEN /\ readVal' = <<>>
            /\ rd' = settled(rd, "end")
            /\ io' = "ok"
       ELSE UNCHANGED <<readVal, rd, io>>
    /\ UNCHANGED <<buf, stream, pos, sock, pc, msg, reqBody, res, writer,
                   reading, failure, written, reqLog, delivered, bufVarsOnly, flowing,
                   srvVarsOnly>>

\* The "error" event: the socket is destroyed with the error; a pending
\* read is rejected by the handler.  When it is the pending write that
\* failed (writeFails), its callback was called with the error in the same
\* turn; else the write stays pending until its callback.
SockError(writeFails) ==
    /\ pc = "api" /\ io \in {"run", "read", "write"}
    /\ writeFails => io = "write"
    /\ rd.calls > 0
    /\ ~sock.destroyed /\ ~conn.err
    /\ conn' = onError(conn)
    /\ sock' = [sock EXCEPT !.destroyed = TRUE]
    /\ rd' = IF conn.reader THEN settled(rd, "error") ELSE rd
    /\ io' = IF conn.reader \/ writeFails THEN "err" ELSE io
    /\ UNCHANGED <<buf, stream, pos, readVal, pc, msg, reqBody, res, writer,
                   reading, failure, written, reqLog, delivered, bufVarsOnly, flowing,
                   srvVarsOnly>>

\* The callback of socket.write, without an error: the write is done, or
\* the socket was destroyed while it was pending.
SockWriteDone ==
    /\ pc = "api" /\ io = "write"
    /\ io' = "ok"
    /\ UNCHANGED <<buf, stream, pos, conn, sock, readVal, pc, msg, reqBody,
                   res, writer, reading, failure, written, reqLog,
                   delivered, bufVarsOnly, extVarsOnly>>

\* "finish" and "close" after socket.end() of the "end" handler: once
\* nothing is being written any more the socket is destroyed, without an
\* "error" event; a caller that goes on at once writes before that.
SockFinish ==
    /\ pc = "api" /\ io # "write"
    /\ conn.ended /\ ~sock.destroyed
    /\ sock' = [sock EXCEPT !.destroyed = TRUE]
    /\ UNCHANGED <<buf, stream, pos, conn, io, readVal, pc, msg, reqBody, res,
                   writer, reading, failure, written, reqLog, delivered,
                   bufVarsOnly, extVarsOnly>>

\* socket.destroy() without an error: no handler of soInit is called; a
\* pending write stays pending until its callback.
SockDestroy ==
    /\ pc = "api" /\ io \in {"run", "read", "write"}
    /\ ~sock.destroyed
    /\ sock' = newConnFinally(sock)
    /\ UNCHANGED <<buf, stream, pos, conn, io, readVal, pc, msg, reqBody, res,
                   writer, reading, failure, written, reqLog, delivered, bufVarsOnly,
                   extVarsOnly>>

SockNext ==
    \/ SockRead
    \/ SockWrite
    \/ SockResume
    \/ \E k \in 1..(Len(stream) - pos) : SockData(k)
    \/ SockEnd
    \/ \E writeFails \in BOOLEAN : SockError(writeFails)
    \/ SockWriteDone
    \/ SockFinish
    \/ SockDestroy

SpecSock == SockInit /\ [][SockNext]_vars

\* The runtime runs the continuation of a settled promise and closes the
\* socket that has ended both ways.  Nothing obliges the peer to send, to
\* read or to end its side, nor the caller or the owner of the socket to
\* act.
SockFair ==
    /\ WF_vars(SockResume)
    /\ WF_vars(SockFinish)

SpecSockLive == SockInit /\ [][SockNext]_vars /\ SockFair

----------------------------------------------------------------------------
(* Claims about the socket API.                                            *)

\* C11: if the socket is destroyed while a soRead is pending, the pending
\* read is eventually resolved or rejected.
C11_TeardownSettlesRead == (sock.destroyed /\ conn.reader) ~> ~conn.reader

\* An event of the socket reaches its handler in this step.
dataEmitted == pos' > pos
endEmitted == conn'.ended /\ ~conn.ended
errorEmitted == conn'.err /\ ~conn.err

\* C14: no soRead call is fulfilled more than once, and once it is, the
\* reader slot is empty; a "data", "end" or "error" event that comes while
\* the call is pending fulfils it: with the chunk delivered, with an empty
\* chunk, or with a rejection; a call made after the end or after an error
\* is fulfilled at once.
C14_ReadFulfilledOnce ==
    [][/\ rd'.settles <= 1
       /\ rd'.settles = 1 => ~conn'.reader
       /\ conn'.reader => (rd'.settles = 0 /\ io' = "read")
       /\ (conn.reader /\ (dataEmitted \/ endEmitted \/ errorEmitted)) =>
              /\ rd'.calls = rd.calls
              /\ rd'.settles = 1
       /\ rd'.how = "data" =>
              /\ Len(readVal') > 0
              /\ readVal' = SubSeq(stream, pos' - Len(readVal') + 1, pos')
       /\ rd'.how \in {"end", "ended"} => (readVal' = <<>> /\ conn'.ended)
       /\ rd'.how \in {"error", "kept error"} => conn'.err
       /\ (rd'.settles > rd.settles /\ rd'.calls = rd.calls) =>
              io' = IF rd'.how = "error" THEN "err" ELSE "ok"]_vars

\* A second call, fulfilled by the "end" event after the first one was
\* fulfilled by data, and an "error" event after that.
C14_Witness ==
    /\ pc = "api" /\ rd.calls = 2 /\ rd.how = "end" /\ rd.settles = 1
    /\ pos > 0 /\ conn.err /\ ~conn.reader

\* A step in which the caller calls soRead, or soWrite.
readCalled == rd'.calls > rd.calls
writeCalled == io = "run" /\ io' # "run" /\ rd'.calls = rd.calls

\* C15: once conn.err is set it stays set; every later soRead rejects at
\* once with the error kept, without registering a reader or resuming the
\* socket; every later soWrite rejects at once without writing.
C15_ErrorIsSticky ==
    [][conn.err =>
          /\ conn'.err
          /\ readCalled =>
                 /\ io' = "err"
                 /\ rd'.how = "kept error"
                 /\ ~conn'.reader
                 /\ flowing' = flowing
          /\ writeCalled =>
                 /\ io' = "err"
                 /\ written' = written]_vars

\* After an error, a later soRead is rejected at once with the error kept;
\* nothing was written to the socket.
C15_Witness ==
    /\ pc = "api" /\ conn.err /\ rd.calls >= 2 /\ rd.how = "kept error"
    /\ io = "err" /\ ~conn.reader /\ Len(written) = 0

----------------------------------------------------------------------------
(* The listener API: soListen, soAccept and the server's events.           *)

\* The outcome of a soAccept call: still pending, resolved with the socket
\* of a connection, or rejected with an error.
Pending == [out |-> "pending", socket |-> 0]
Resolved(socket) == [out |-> "socket", socket |-> socket]
Rejected(why) == [out |-> why, socket |-> 0]

sAnotherAccept == "another accept is pending"
sListenerError == "listener.err"

\* A soAccept that does not look for a pending accept.
soAccept_Overwrites(l, id) ==
    IF l.err
    THEN [out |-> Rejected(sListenerError), listener |-> l]
    ELSE [out |-> Pending,
          listener |-> [l EXCEPT !.connectionHandler = id,
                                 !.listening = TRUE,
                                 !.listens = @ + 1]]

\* soAccept, as call number id: rejects at once with the listener's error or
\* when an accept is pending; else keeps its callbacks and calls listen.
soAccept(l, id) ==
    IF l.err
    THEN [out |-> Rejected(sListenerError), listener |-> l]
    ELSE IF l.connectionHandler # 0
    THEN [out |-> Rejected(sAnotherAccept), listener |-> l]
    ELSE [out |-> Pending,
          listener |-> [l EXCEPT !.connectionHandler = id,
                                 !.listening = TRUE,
                                 !.listens = @ + 1]]

\* The "connection" handler: close the server, resolve, clear the slot.
onConnection(l) == [l EXCEPT !.listening = FALSE, !.connectionHandler = 0]

\* The "error" handler of the server: keep the error, reject, clear the
\* slot.  A failed listen leaves the server closed; a failed accept of one
\* connection leaves it listening.
onListenerError(l, stays) ==
    [l EXCEPT !.err = TRUE, !.connectionHandler = 0,
              !.listening = l.listening /\ stays]

\* The histories after the handler of a pending accept is settled.
settleAccept(log, id, outcome) ==
    IF id = 0 THEN log ELSE [log EXCEPT ![id] = outcome]

----------------------------------------------------------------------------
(* A driver of the listener API alone: a caller that may call soAccept at  *)
(* any time, also while an accept is pending.                              *)

MaxAccepts == 4
MaxConns == 2

AccInit ==
    /\ stream = <<>>
    /\ pos = 0
    /\ pc = "idle"
    /\ io = "run"
    /\ readVal = <<>>
    /\ conn = soInit
    /\ sock = [destroyed |-> FALSE]
    /\ buf = EmptyBuf
    /\ written = <<>>
    /\ msg = NoReq
    /\ reqBody = NoReader
    /\ res = NoRes
    /\ writer = "serve"
    /\ reading = "write"
    /\ failure = NoError
    /\ reqLog = <<>>
    /\ delivered = 0
    /\ bufThrew = FALSE
    /\ pushed = 0
    /\ popped = 0
    /\ flowing = TRUE
    /\ rd = NoRead
    /\ listener = soListen
    /\ accepts = <<>>
    /\ arrived = 0
    /\ uncaught = FALSE
    /\ accPc = "api"
    /\ cur = 0
    /\ parked = <<>>

\* The caller calls soAccept.
AccCall ==
    /\ accPc = "api" /\ ~uncaught
    /\ Len(accepts) < MaxAccepts
    /\ LET r == soAccept(listener, Len(accepts) + 1)
       IN  /\ listener' = r.listener
           /\ accepts' = Append(accepts, r.out)
    /\ UNCHANGED <<connVarsOnly, buf, bufVarsOnly, flowing, rd, arrived,
                   uncaught, accPc, cur, parked>>

\* The "connection" event, while the server listens.  Without callbacks in
\* the slot the handler raises a TypeError after server.close().
AccConnection ==
    /\ accPc = "api" /\ ~uncaught
    /\ listener.listening
    /\ arrived < MaxConns
    /\ arrived' = arrived + 1
    /\ listener' = onConnection(listener)
    /\ accepts' = settleAccept(accepts, listener.connectionHandler,
                               Resolved(arrived + 1))
    /\ uncaught' = (listener.connectionHandler = 0)
    /\ UNCHANGED <<connVarsOnly, buf, bufVarsOnly, flowing, rd, accPc, cur,
                   parked>>

\* The "error" event of the server, at most once here.
AccError(stays) ==
    /\ accPc = "api" /\ ~uncaught
    /\ ~listener.err
    /\ listener.listens > 0
    /\ listener' = onListenerError(listener, stays)
    /\ accepts' = settleAccept(accepts, listener.connectionHandler,
                               Rejected(sListenerError))
    /\ UNCHANGED <<connVarsOnly, buf, bufVarsOnly, flowing, rd, arrived,
                   uncaught, accPc, cur, parked>>

AccNext ==
    \/ AccCall
    \/ AccConnection
    \/ \E stays \in BOOLEAN : AccError(stays)

SpecAcc == AccInit /\ [][AccNext]_vars

\* A step in which soAccept is called while an accept is pending.
secondAccept == Len(accepts') > Len(accepts) /\ listener.connectionHandler # 0

\* C12: a soAccept called while another one is pending is rejected at once
\* with the error "another accept is pending"; it leaves the pending
\* connectionHandler in place and does not call listen again; the pending
\* accept is resolved with the socket of the next connection.
C12_SecondAcceptRejected ==
    [][/\ secondAccept =>
              /\ accepts'[Len(accepts')] = Rejected(sAnotherAccept)
              /\ listener' = listener
              /\ SubSeq(accepts', 1, Len(accepts)) = accepts
       /\ (arrived' > arrived /\ listener.connectionHandler # 0) =>
              /\ accepts[listener.connectionHandler] = Pending
              /\ accepts'[listener.connectionHandler] = Resolved(arrived')
              /\ \A i \in 1..Len(accepts) :
                     i # listener.connectionHandler => accepts'[i] = accepts[i]]_vars

\* The first accept is resolved with the first connection after a second
\* accept was rejected while it was pending.
C12_Witness ==
    /\ accPc = "api" /\ Len(accepts) >= 2
    /\ accepts[1] = Resolved(1)
    /\ accepts[2] = Rejected(sAnotherAccept)
    /\ listener.listens = 1

----------------------------------------------------------------------------
(* httpServer: the accept loop, and the connections it spawns.  Node runs  *)
(* one callback at a time, and the continuations of a settled promise run  *)
(* before the next event.  The variables of the connection loop hold the   *)
(* connection whose code runs or whose event fires, number cur; the other  *)
(* connections' objects are kept, untouched, in parked.                    *)

\* The objects of the running connection: its socket and TCPConn, the
\* DynBuf and the locals of its serveClient and newConn calls.
curConn ==
    [stream |-> stream, pos |-> pos, conn |-> conn, sock |-> sock,
     io |-> io, readVal |-> readVal, pc |-> pc, msg |-> msg,
     reqBody |-> reqBody, res |-> res, writer |-> writer,
     reading |-> reading, failure |-> failure, written |-> written,
     reqLog |-> reqLog, delivered |-> delivered, buf |-> buf,
     flowing |-> flowing]

\* A connection as newConn finds it: soInit(socket), before serveClient.
freshConn(s) ==
    [stream |-> s, pos |-> 0, conn |-> soInit,
     sock |-> [destroyed |-> FALSE], io |-> "run", readVal |-> <<>>,
     pc |-> "loop", msg |-> NoReq, reqBody |-> NoReader, res |-> NoRes,
     writer |-> "serve", reading |-> "write", failure |-> NoError,
     written |-> <<>>, reqLog |-> <<>>, delivered |-> 0, buf |-> EmptyBuf,
     flowing |-> TRUE]

\* The slot of the running connection in parked.
NoConn == freshConn(<<>>)

\* Connection number c.
connOf(c) == IF c = cur THEN curConn ELSE parked[c]

\* The running connection becomes r.
LoadConn(r) ==
    /\ stream' = r.stream
    /\ pos' = r.pos
    /\ conn' = r.conn
    /\ sock' = r.sock
    /\ io' = r.io
    /\ readVal' = r.readVal
    /\ pc' = r.pc
    /\ msg' = r.msg
    /\ reqBody' = r.reqBody
    /\ res' = r.res
    /\ writer' = r.writer
    /\ reading' = r.reading
    /\ failure' = r.failure
    /\ written' = r.written
    /\ reqLog' = r.reqLog
    /\ delivered' = r.delivered
    /\ flowing' = r.flowing
    /\ buf' = r.buf

\* parked, with the running connection put back into its slot.
parkCur == IF cur = 0 THEN parked ELSE [parked EXCEPT ![cur] = curConn]

\* No code of the running connection is ready to run: it awaits an event
\* of its socket, or newConn has returned.
Quiet == pc \in {"idle", "done"} \/ io \in {"read", "write"}

\* httpServer after newConn(socket), which it does not await: the loop's
\* next iteration.
afterNewConn == "accept"

\* The streams of the clients of a server.
SrvStreams ==
    {<<>>,
     Get(sRoot, sHTTP11),
     RequestLine(sPATCH, sRoot, sHTTP11) \o CRLF,
     RenderAll(<<PostOf(sEcho, BigBody)>>)}

\* The length of the header block at the head of the bytes s, terminator
\* included; 0 without a terminator.
blockLen(s) ==
    IF indexOf(s, <<CR, LF, CR, LF>>, 0) < 0 THEN 0
    ELSE indexOf(s, <<CR, LF, CR, LF>>, 0) + 4

\* The chunks in which the rest of a stream is delivered: all of it, all
\* but its last byte, or the header block at its head alone.
SrvChunks(rest) ==
    {k \in {rest - 1, rest, blockLen(SubSeq(stream, pos + 1, Len(stream)))} :
        1 <= k /\ k <= rest}

SrvInit ==
    /\ stream = <<>>
    /\ pos = 0
    /\ pc = "idle"
    /\ io = "run"
    /\ readVal = <<>>
    /\ conn = soInit
    /\ sock = [destroyed |-> FALSE]
    /\ buf = EmptyBuf
    /\ written = <<>>
    /\ msg = NoReq
    /\ reqBody = NoReader
    /\ res = NoRes
    /\ writer = "serve"
    /\ reading = "write"
    /\ failure = NoError
    /\ reqLog = <<>>
    /\ delivered = 0
    /\ bufThrew = FALSE
    /\ pushed = 0
    /\ popped = 0
    /\ flowing = TRUE
    /\ rd = NoRead
    /\ listener = soListen
    /\ accepts = <<>>
    /\ arrived = 0
    /\ uncaught = FALSE
    /\ accPc = "accept"
    /\ cur = 0
    /\ parked = <<>>

\* The history of the accepts keeps the outcomes of the first MaxAccepts
\* calls.
logAccept(log, out) == IF Len(log) < MaxAccepts THEN Append(log, out) ELSE log

\* The top of httpServer's loop: soAccept, awaited.  It runs when newConn
\* has returned its promise.
SrvAccept ==
    /\ accPc = "accept" /\ ~uncaught
    /\ Quiet
    /\ LET r == soAccept(listener, Len(accepts) + 1)
       IN  /\ listener' = r.listener
           /\ accepts' = logAccept(accepts, r.out)
           /\ accPc' = IF r.out = Pending THEN "wait" ELSE "accept"
    /\ UNCHANGED <<connVarsOnly, buf, bufVarsOnly, flowing, rd, arrived,
                   uncaught, cur, parked>>

\* The "connection" event of the server.
SrvConnection ==
    /\ accPc = "wait" /\ ~uncaught
    /\ Quiet
    /\ listener.listening
    /\ arrived < MaxConns
    /\ arrived' = arrived + 1
    /\ listener' = onConnection(listener)
    /\ accepts' = settleAccept(accepts, listener.connectionHandler,
                               Resolved(arrived + 1))
    /\ accPc' = "got"
    /\ UNCHANGED <<connVarsOnly, buf, bufVarsOnly, flowing, rd, uncaught,
                   cur, parked>>

\* httpServer with the socket: newConn(socket), whose soInit makes the
\* connection; its code runs up to its first await before newConn returns.
SrvNewConn(s) ==
    /\ accPc = "got" /\ ~uncaught
    /\ parked' = Append(parkCur, NoConn)
    /\ cur' = arrived
    /\ LoadConn(freshConn(s))
    /\ accPc' = afterNewConn
    /\ UNCHANGED <<bufVarsOnly, rd, listener, accepts, arrived, uncaught>>

\* The next event is one of connection c's socket.
Switch(c) ==
    /\ accPc = "wait" /\ ~uncaught
    /\ Quiet
    /\ c # cur
    /\ parked' = [parkCur EXCEPT ![c] = NoConn]
    /\ cur' = c
    /\ LoadConn(parked[c])
    /\ UNCHANGED <<bufVarsOnly, rd, listener, accepts, arrived, uncaught,
                   accPc>>

SrvNext ==
    \/ SrvAccept
    \/ SrvConnection
    \/ \E s \in SrvStreams : SrvNewConn(s)
    \/ \E c \in 1..Len(parked) : Switch(c)
    \/ ServeLoop
    \/ HeaderRead
    \/ HaveRequest
    \/ WriteRes
    \/ WriteSettled
    \/ BodyNext
    \/ Discard
    \/ BodyRead
    \/ Catch
    \/ Finally
    \/ accPc = "wait" /\ \E k \in SrvChunks(Len(stream) - pos) : DataEvent(k)
    \/ accPc = "wait" /\ EndEvent
    \/ accPc = "wait" /\ \E writeFails \in BOOLEAN : ErrorEvent(writeFails)
    \/ accPc = "wait" /\ WriteDone

SpecSrv == SrvInit /\ [][SrvNext]_vars

\* The connections made so far.
Conns == 1..Len(parked)

\* httpServer is suspended: it awaits a promise.
loopSuspended == accPc \notin {"accept", "got"}

\* The accept that httpServer awaits is pending on a listening server.
acceptPending ==
    /\ listener.connectionHandler # 0
    /\ listener.listening
    /\ listener.connectionHandler <= Len(accepts)
    /\ accepts[listener.connectionHandler] = Pending

\* C13: a step of one connection (of its loop or an event of its socket, a
\* failure among them) changes neither another connection (its DynBuf,
\* pending reader, ended flag, err and the rest) nor the listener; no
\* failure leaves newConn or an event handler, which would end the process
\* and every connection with it; and whenever httpServer is suspended it
\* awaits a pending accept on a listening server, whatever the connections'
\* loops do: it has waited for none of them.
C13_ConnectionsIsolated ==
    [][/\ \A c \in Conns : \A d \in Conns :
              (c # d /\ connOf(c)' # connOf(c)) =>
                  /\ connOf(d)' = connOf(d)
                  /\ listener' = listener
                  /\ accepts' = accepts
                  /\ accPc' = accPc
       /\ ~uncaught'
       /\ loopSuspended' => acceptPending'
       /\ (accPc = "accept" /\ accPc' = "wait") =>
              \A c \in Conns : connOf(c)' = connOf(c)]_vars

\* The first connection has failed and newConn answers its HTTPError; its
\* socket has reported an error since, and the callback of the pending write
\* is still to come.  The second connection, accepted meanwhile, has
\* received data after that error and its loop goes on, and httpServer
\* awaits a third connection.
C13_Witness ==
    /\ Len(parked) = 2 /\ cur = 2
    /\ parked[1].failure.type = "HTTPError" /\ parked[1].writer = "catch"
    /\ parked[1].conn.err /\ parked[1].sock.destroyed
    /\ parked[1].io = "write"
    /\ io = "ok" /\ readVal # <<>> /\ failure = NoError /\ ~conn.err
    /\ ~sock.destroyed
    /\ accPc = "wait" /\ acceptPending /\ listener.connectionHandler = 3

----------------------------------------------------------------------------
(* The content-length-bounded body reader, as serveClient and             *)
(* writeHTTPRes call it.                                                   *)

\* A step that calls read() of the request's body reader, and a step in
\* which that call goes on after its soRead resolved (an "end" event may
\* come between the two: it is no step of the reader).
readCall == (pc = "bodyNext" /\ res.body.kind = "req") \/ pc = "discard"
readGoesOn == pc = "bodyRead" /\ io = "ok" /\ pc' # "bodyRead"

\* Who called read(): writeHTTPRes, or the discard loop of serveClient.
readCaller ==
    IF pc = "bodyRead" THEN reading
    ELSE IF pc = "discard" THEN "discard"
    ELSE "write"

\* What the caller sees of the call.  The reader awaits soRead.  It returns
\* the empty chunk: writeHTTPRes returns, the discard loop ends.  It returns
\* data: writeHTTPRes writes it (or fails to), the discard loop reads on.
\* It raises: its own HTTPError, or the RangeError of bufPop.
awaitsSoRead == readCall /\ pc' = "bodyRead"
endOfBody ==
    /\ readCall \/ readGoesOn
    /\ pc' = IF readCaller = "discard" THEN "loop"
             ELSE afterWriteRes("serve", msg)
returnsData ==
    /\ readCall \/ readGoesOn
    /\ IF readCaller = "discard" THEN pc' = "discard"
       ELSE pc' = "bodyWrite" \/ (pc' = "catch" /\ failure' = SocketError)
readRaises ==
    /\ readCall \/ readGoesOn
    /\ pc' = "catch" /\ failure' # SocketError

\* The bytes the step takes out of the buffer, the chunk soRead resolved
\* with counted in.
removed ==
    buf.length + (IF readGoesOn THEN Len(readVal) ELSE 0) - buf'.length

\* C21: the reader over Content-Length N returns the empty chunk only after
\* it has returned exactly N bytes, takes out of the buffer the bytes it
\* returns and never more than are left of the N, calls soRead only with an
\* empty buffer and fewer than N bytes returned, and raises HTTPError 400
\* "Unexpected EOF" when soRead reports the end of the stream.
C21_LengthReaderExact ==
    [][(readCall \/ readGoesOn) =>
          /\ awaitsSoRead \/ endOfBody \/ returnsData \/ readRaises
          /\ endOfBody =>
                 /\ delivered = reqBody.length
                 /\ delivered' = delivered
                 /\ removed = 0
          /\ returnsData =>
                 /\ delivered' > delivered
                 /\ delivered' <= reqBody.length
                 /\ removed = delivered' - delivered
                 /\ reqBody'.bodyLen = reqBody.length - delivered'
          /\ removed <= reqBody.length - delivered
          /\ awaitsSoRead =>
                 /\ buf.length = 0
                 /\ delivered < reqBody.length
                 /\ delivered' = delivered
          /\ (readGoesOn /\ readVal = <<>>) =>
                 /\ readRaises
                 /\ failure' = HTTPError(400, mUnexpectedEOF)
                 /\ delivered' = delivered]_vars

\* The discard loop of serveClient has read the body of a POST that the
\* handler left unread: a part of it came with a later "data" event, which
\* brought more bytes than were left of the body, and these stay in the
\* buffer.
C21_Witness ==
    /\ pc = "discard" /\ reading = "discard" /\ msg.uri = sRoot
    /\ reqBody.length > 0 /\ delivered = reqBody.length
    /\ reqBody.bodyLen = 0
    /\ buf.length > 0 /\ buf.length < Len(readVal)

----------------------------------------------------------------------------
(* Responses and requests of one connection.                               *)

\* The messages of the HTTPErrors raised while a parsed request is served:
\* by readerFromReq, before its response, and by its body reader.
RequestErrors == {mBadContentLength, mBodyNotAllowed, mUnexpectedEOF}

\* The HTTPError newConn caught was raised by cutMessage or by the read of
\* serveClient's loop: no request was parsed for it.
failedParsing ==
    failure.type = "HTTPError" /\ failure.message \notin RequestErrors

\* C22: at most one response head is written for each request parsed on a
\* connection (and one more for the message that could not be parsed): no
\* error response follows the head of the handler's response to the same
\* request.
C22_OneHeadPerRequest ==
    Len(Heads(written)) <= Len(reqLog) + (IF failedParsing THEN 1 ELSE 0)

\* The head of the response to the last request was written, the read of
\* its body then raised "Unexpected EOF", and newConn has called
\* writeHTTPRes for the error and destroyed the socket: the write of the
\* second head failed, the client having ended the connection.
C22_Witness ==
    /\ pc = "done" /\ writer = "catch"
    /\ failure = HTTPError(400, mUnexpectedEOF)
    /\ Len(reqLog) > 0 /\ Len(Heads(written)) = Len(reqLog)
    /\ conn.ended /\ conn.err

----------------------------------------------------------------------------
(* httpServer with a listener that reports an error.                       *)

\* The "error" event of the server while httpServer awaits soAccept: the
\* pending accept is rejected, and httpServer's catch block logs and goes
\* to the loop's next iteration.
SrvListenerError(stays) ==
    /\ accPc = "wait" /\ ~uncaught
    /\ Quiet
    /\ ~listener.err
    /\ arrived < MaxConns
    /\ listener' = onListenerError(listener, stays)
    /\ accepts' = settleAccept(accepts, listener.connectionHandler,
                               Rejected(sListenerError))
    /\ accPc' = IF listener.connectionHandler # 0 THEN "accept" ELSE accPc
    /\ UNCHANGED <<connVarsOnly, buf, bufVarsOnly, flowing, rd, arrived,
                   uncaught, cur, parked>>

RetryNext ==
    \/ SrvNext
    \/ \E stays \in BOOLEAN : SrvListenerError(stays)

\* httpServer's code runs when it can.  Nothing obliges a client to
\* connect.
RetryFair ==
    /\ WF_vars(SrvAccept)
    /\ WF_vars(\E s \in SrvStreams : SrvNewConn(s))

SpecRetry == SrvInit /\ [][RetryNext]_vars /\ RetryFair

\* C23: after the listener reported an error to a pending accept, the
\* accept loop retries and comes to await an accept that is pending on a
\* listening server, so that the connection that arrives later is accepted
\* and given to newConn; it does not reject forever without suspending.
C23_RetryAccepts ==
    listener.err ~>
        (accPc = "wait" /\ listener.connectionHandler # 0 /\ listener.listening)

\* A step in which the server delivers a connection.
connectionEvent == arrived' > arrived

\* C24: the server listens only while an accept is pending: every
\* connection event finds the connectionHandler set and resolves that one
\* accept with the connection, and no connection is dropped.
C24_ListensOnlyForAccept ==
    [][/\ listener.listening => listener.connectionHandler # 0
       /\ connectionEvent =>
              /\ listener.connectionHandler # 0
              /\ accepts[listener.connectionHandler] = Pending
              /\ accepts' = [accepts EXCEPT ![listener.connectionHandler] =
                                                Resolved(arrived')]
              /\ ~uncaught'
              /\ ~listener'.listening]_vars

----------------------------------------------------------------------------
(* Reads and "data" events of one connection.                              *)

\* A step in which serveClient or the body reader calls soRead, and a step
\* in which the socket emits "data".
soReadCalled == pc # pc' /\ pc' \in {"hdrRead", "bodyRead"}
dataEvent == pos' > pos

\* C25: on a connection newConn serves, soRead is never called while
\* conn.reader is set, and every "data" event finds a reader pending and
\* gives it the bytes: none are lost, and no handler raises.
C25_OneReadAtATime ==
    [][/\ soReadCalled => ~conn.reader
       /\ dataEvent =>
              /\ conn.reader
              /\ ~conn'.reader
              /\ readVal' = SubSeq(stream, pos + 1, pos')
              /\ io' = "ok"
       /\ ~uncaught']_vars

\* A request was parsed, its response is being written, and a read of the
\* body reader was resolved by a later "data" event with the last bytes of
\* the stream.
C25_Witness ==
    /\ pc = "bodyRead" /\ io = "ok" /\ reading = "write"
    /\ Len(reqLog) >= 1 /\ Len(written) >= 1
    /\ pos = Len(stream) /\ Len(readVal) > 0 /\ Len(readVal) < Len(stream)
    /\ ~flowing /\ ~conn.reader /\ ~uncaught

============================================================================
